---- MODULE Spec2Model ----
(***************************************************************************)
(* A model of netless-window-manager: the Refine identity/diff engine and  *)
(* the Storage view built on it (src/src/app-context.ts), the debounced()  *)
(* scheduler (src/src/utils.ts), and of WindowManagerImpl                   *)
(* (src/unnamed/part_002, src/src/app.ts) the camera synchronisation, the  *)
(* permission to write, the pages and the windows.                         *)
(*                                                                         *)
(* Each subsystem has its own specification (SpecRefine, SpecDebounce,     *)
(* SpecStorage, SpecCamera, SpecManager, SpecWindows).  The variables of   *)
(* the other subsystems keep their initial value under a specification     *)
(* that does not use them.                                                 *)
(***************************************************************************)
EXTENDS Integers, Sequences, FiniteSets, TLC

VARIABLES
  \* ---- Refine (app-context.ts 120-209) ----
  state,      \* Refine.state: key -> value (Undef when the key is absent)
  keyOrder,   \* insertion order of the own keys of Refine.state
  refMap,     \* Refine.refMap: object reference -> key of its wrapper
  refKeys,    \* Refine.refKeys
  rLast,      \* history: the last call on the engine and what it returned
  \* ---- debounced (utils.ts 47-67) ----
  now,        \* Date.now(), in ticks
  timer,      \* the closure's timer: 0, or the id setTimeout returned
  lastTime,   \* the closure's lastTime
  timeouts,   \* the host's pending timeouts: records [id, due]
  dCalls,     \* history: calls of update() since the last execution or dispose()
  dExecs,     \* history: executions of fn so far (counted up to 2)
  dServed,    \* history: the value of dCalls when fn last executed
  dGapOk,     \* history: no execution began sooner than Timeout after the one before
  burst,      \* history: the calls made in one window of length Timeout
  dLast,      \* history: the last dispose() if no call or execution followed it
  \* ---- Storage (app-context.ts 219-321); its _refine is the engine above ----
  sPlugin,    \* plugin$.value is a plugin instance (FALSE: the empty stand-in)
  sWritable,  \* isRoomWritable(plugin.displayer)
  nsPresent,  \* attributes[kStorage][namespace] exists
  nsTree,     \* attributes[kStorage][namespace]: key -> encoded value
  sStore,     \* the disposers held by Storage.dispose
  sReaction,  \* a reaction of listenNamespace is live on the plugin's attributes
  sListening, \* a listenUpdated handler is attached to the namespace object
  scSubs,     \* _subscribers.stateChanged
  dcSubs,     \* _subscribers.disconnected
  nextRef,    \* the identity the next object made by toJS gets
  disposeCalls, \* history: calls of Storage.dispose() (counted up to MaxDispose)
  dcCount,    \* history: calls of each disconnected subscriber (counted up to 2)
  dcAtFirst,  \* history: the disconnected subscribers at the first dispose()
  sLast,      \* history: the last operation since dispose(), and what it led to
  \* ---- camera of the main view (part_002 333-360, 428-433, 561-572) ----
  cShared,    \* attributes['camera'] as the room's server has it
  cAttr,      \* per client: attributes['camera'] of its replica
  cPend,      \* per client: a write of another client is still to reach it
  cJoined,    \* per client: its WindowManager is constructed
  cWritable,  \* per client: writer() gives the plugin
  freedom,    \* per client: freedom$.value
  cWidth,     \* per client: effectiveRect$.value.width
  mainView,   \* per client: mainView.camera (device scale)
  syncTimer,  \* per client: the debounced syncCameraToRemote is scheduled
  syncFree,   \* history, per client: it is scheduled by motions in freedom mode only
  cLast,      \* history: the last camera operation and the run of the reaction in it
  \* ---- manager: permission, attributes, pages, windows (part_002, app.ts) ----
  mPlugin,    \* options.plugin$.value is a plugin instance (FALSE: the empty stand-in)
  mWritable,  \* isRoomWritable(room)
  tRegistry,  \* attributes.registry: [some, kinds]
  tStorage,   \* attributes[kStorage]: [some, ns (the namespaces in it)]
  tApps,      \* attributes.apps: [some, metas (id -> entry)]
  tCamera,    \* attributes.camera was written
  pageIndex,  \* room.state.sceneState.index
  pageCount,  \* room.state.sceneState.scenes.length
  boxes,      \* telebox: id -> the box of the App with that id
  created,    \* telebox: the ids of the boxes in the order of their creation
  moveTimer,  \* the debounced 'intrinsic_move' handler is scheduled
  resizeTimer, \* the debounced 'intrinsic_resize' handler is scheduled
  mLast,      \* history: the last call on the manager and what it did
  \* ---- new Storage(...) (app-context.ts 227-280) ----
  ctorDefault, \* the defaultState argument of the constructor
  ctorResult, \* "none" before the call, then "constructed" or "threw"
  \* ---- callbacks that throw (app-context.ts 282-295, utils.ts 50-54) ----
  eSubs,      \* _subscribers[event] of a Storage, in the order of insertion
  iLast,      \* history: the last emit() or scheduler step and its exceptions
  \* ---- manager.dispose() (part_002 223-224, 428-437) ----
  sessDisposed, \* calls of manager.dispose() (counted up to MaxDispose)
  camTimer,   \* the debounced syncCameraToRemote is scheduled
  sceneTimer, \* the debounced syncMainView is scheduled
  \* ---- App and AppContext (app.ts 22-81, app-context.ts 45-83) ----
  appDisposed, \* calls of App.dispose() (counted up to MaxDispose)
  ctxStore,   \* the storages held by AppContext.dispose
  stor,       \* per Storage of the context: [made, subs, disposed, dc]
  ctxSubs,    \* the callbacks given to context.on('stateChanged', ...)
  stSubs,     \* the callbacks given to context.storage.on('stateChanged', ...)
  appCan,     \* context.storage.canOperate
  appTree,    \* attributes[kStorage][appId].value, 0 for none
  appShadow,  \* context.state.value, 0 for none
  aLast,      \* history: the last change of the app's state and who was told
  regDef,     \* registry.get(kind): 0 for none, else the loader registered
  appSub,     \* the subscription of the App to its definition is live
  loads,      \* the loaders whose promise the subscriber is awaiting
  setups,     \* history: calls of setup() (counted up to MaxSetups)
  setupErrors, \* history: 'appSetupError' events (counted up to MaxSetups)
  \* ---- mergeAttributes (utils.ts 91-103, part_002 485-492) ----
  mgA,        \* the attributes (or a subtree of them) the merge starts at
  mgCount,    \* history: calls of mergeAttributes (counted up to MaxMerges)
  mgLast,     \* history: the last mergeAttributes, its writes and its exception
  \* ---- useInvisiblePlugin(kind).initialize(room) (utils.ts 176-220) ----
  pToken,     \* isTokenWritable(room)
  pIsWritable, \* room.isWritable
  pPhase,     \* room.phase
  pMap,       \* map.get(room): 0 for none, else the plugin instance
  pGen,       \* the plugin instances the room has had
  pRequests,  \* the createInvisiblePlugin promises that are not settled
  pDisposed,  \* dispose() was called
  pLast,      \* history: the last event and whether createInvisiblePlugin was called
  \* ---- the listeners bound to plugin$ (app-context.ts 241-273, part_002 420-426) ----
  bPlugin,    \* plugin$.value: 0 for the empty stand-in, else the plugin instance
  bEpoch,     \* the emissions of plugin$ after the first (counted up to MaxEmits)
  bNs,        \* attributes[kStorage][namespace] of the plugin: 0, or the object
  bObjs,      \* the namespace objects made so far
  bReactions, \* the reactions of listenNamespace that were not stopped
  bHandlers,  \* the handlers of listenNamespaceProps that were not removed
  bSubs,      \* the subscribers manager.reaction() added to plugin$, in order
  bLive,      \* disposeMap: key -> the listeners under it that were not disposed
  bLast       \* history: the last event on the listeners

refineVars == <<state, keyOrder, refMap, refKeys, rLast>>
debounceVars ==
  <<now, timer, lastTime, timeouts, dCalls, dExecs, dServed, dGapOk, burst, dLast>>

storageVars ==
  <<sPlugin, sWritable, nsPresent, nsTree, sStore, sReaction, sListening,
    scSubs, dcSubs, nextRef, disposeCalls, dcCount, dcAtFirst, sLast>>

cameraVars ==
  <<cShared, cAttr, cPend, cJoined, cWritable, freedom, cWidth, mainView, syncTimer,
    syncFree, cLast>>

managerVars ==
  <<mPlugin, mWritable, tRegistry, tStorage, tApps, tCamera, pageIndex, pageCount,
    boxes, created, moveTimer, resizeTimer, mLast>>

ctorVars == <<ctorDefault, ctorResult>>

\* The variables of the lifecycle models (construction, disposal, Apps).
isoVars == <<eSubs, iLast>>
sessVars == <<sessDisposed, camTimer, sceneTimer>>
appDisposeVars == <<appDisposed, ctxStore, stor>>
appStateVars == <<ctxSubs, stSubs, appCan, appTree, appShadow, aLast>>
appSetupVars == <<regDef, appSub, loads, setups, setupErrors>>
appVars == <<appDisposeVars, appStateVars, appSetupVars>>
mergeVars == <<mgA, mgCount, mgLast>>
plugVars == <<pToken, pIsWritable, pPhase, pMap, pGen, pRequests, pDisposed, pLast>>
bindVars == <<bPlugin, bEpoch, bNs, bObjs, bReactions, bHandlers, bSubs, bLive, bLast>>
lateVars == <<mergeVars, plugVars, bindVars>>
lifeVars == <<ctorVars, isoVars, sessVars, appVars, lateVars>>

\* What an action of one subsystem leaves alone.
notRefine == <<debounceVars, storageVars, cameraVars, managerVars, lifeVars>>
notDebounce == <<refineVars, storageVars, cameraVars, managerVars, lifeVars>>
notStorage == <<rLast, debounceVars, cameraVars, managerVars, lifeVars>>
notCamera == <<refineVars, debounceVars, storageVars, managerVars, lifeVars>>
notManager == <<refineVars, debounceVars, storageVars, cameraVars, lifeVars>>
notCtor ==
  <<rLast, debounceVars, cameraVars, managerVars, isoVars, sessVars, appVars, lateVars>>
notIso ==
  <<refineVars, storageVars, cameraVars, managerVars, ctorVars, sessVars, appVars, lateVars>>
notSess ==
  <<refineVars, debounceVars, storageVars, cameraVars, ctorVars, isoVars, appVars, lateVars>>
notApp ==
  <<refineVars, debounceVars, storageVars, cameraVars, managerVars, ctorVars, isoVars,
    sessVars, lateVars>>
earlyVars ==
  <<refineVars, debounceVars, storageVars, cameraVars, managerVars, ctorVars, isoVars,
    sessVars, appVars>>
notMerge == <<earlyVars, plugVars, bindVars>>
notPlug == <<earlyVars, mergeVars, bindVars>>
notBind == <<earlyVars, mergeVars, plugVars>>

----------------------------------------------------------------------------
\* Bounds of the model.

\* Number of distinct plain objects the application holds (user objects).
NumObjs == 2
\* Number of object references in all: user objects, then decoded copies.
MaxRefs == 4
\* The interval given to debounced(), in ticks of the clock.
Timeout == 3
\* The clock stops at MaxTime.
MaxTime == 9
\* The number of calls of a burst ("ten calls").
BurstSize == 10
\* The host runs at most MaxTimers timeouts at once.
MaxTimers == 2
\* Calls of Storage.dispose() are counted up to MaxDispose.
MaxDispose == 2

----------------------------------------------------------------------------
\* Values.  Every value is a record of one shape so that any two compare.
\*   t = "undef"  undefined
\*   t = "prim"   a primitive, c is its value
\*   t = "obj"    a plain object: r is its identity, c its (deep) content
\*   t = "ref"    a RefineValue {k, v, __IsReFiNe: 1} around the object (r, c);
\*                c = 0: a malformed one, { k, __IsReFiNe: 1 } without v
\*   t = "void"   undefined held under an own key of Refine.state

StateKeys == {"a", "b", "c"}
Keys == {"k1", "k2"}
NoKey == ""
Prims == {1, 2}
Contents == {1, 2}
Refs == 1..MaxRefs

Undef == [t |-> "undef", k |-> NoKey, r |-> 0, c |-> 0]
Void == [t |-> "void", k |-> NoKey, r |-> 0, c |-> 0]
\* state[key] as an expression reads it, and undefined as state[key] keeps it.
Read(v) == IF v = Void THEN Undef ELSE v
Held(v) == IF v = Undef THEN Void ELSE v
Prim(n) == [t |-> "prim", k |-> NoKey, r |-> 0, c |-> n]
Obj(r, c) == [t |-> "obj", k |-> NoKey, r |-> r, c |-> c]
makeRefineValue(value, key) == [t |-> "ref", k |-> key, r |-> value.r, c |-> value.c]

\* The identities that are arrays.  typeof [] is 'object', so an array is an
\* "obj" to every test of the engine; only its identity tells it apart.
ArrayRefs == {NumObjs}
isArrayValue(v) == v.t = "obj" /\ v.r \in ArrayRefs

isObject(v) == v.t \in {"obj", "ref"}
isRefineValue(v) == isObject(v) /\ v.t = "ref"
\* refValue.v
UnwrapV(v) == IF v.t = "ref" THEN (IF v.c = 0 THEN Undef ELSE Obj(v.r, v.c)) ELSE v
\* The key of refMap for a value: an object's identity, 0 for undefined.
MapKey(v) == IF v.t = "ref" /\ v.c = 0 THEN 0 ELSE v.r

has(st, key) == st[key] # Undef

----------------------------------------------------------------------------
\* The Refine engine as a value: e = [state, keyOrder, refMap, refKeys].

Engine == [state |-> state, keyOrder |-> keyOrder, refMap |-> refMap, refKeys |-> refKeys]

EmptyEngine ==
  [state |-> [k \in StateKeys |-> Undef], keyOrder |-> <<>>,
   refMap |-> [r \in {0} \cup Refs |-> NoKey], refKeys |-> {}]

\* nextKey(): draws keys until one is not in refKeys; rnd is the key it ends with.
nextKeyOk(e, rnd) == rnd \in Keys /\ rnd \notin e.refKeys

nextKey(e, rnd) == [e EXCEPT !.refKeys = @ \cup {rnd}]

\* ensureRefValue(value): [e |-> engine after, ref |-> wrapper, ok |-> the draw is possible]
ensureRefValue(e, value, rnd) ==
  IF isRefineValue(value)
  THEN [e |-> [e EXCEPT !.refMap[MapKey(value)] = value.k], ref |-> value, ok |-> TRUE]
  ELSE IF e.refMap[value.r] # NoKey
       THEN [e |-> e, ref |-> makeRefineValue(value, e.refMap[value.r]), ok |-> TRUE]
       ELSE [e |-> [nextKey(e, rnd) EXCEPT !.refMap[value.r] = rnd],
             ref |-> makeRefineValue(value, rnd),
             ok |-> nextKeyOk(e, rnd)]

toRefValue(e, value, rnd) ==
  IF isObject(value) THEN ensureRefValue(e, value, rnd)
  ELSE [e |-> e, ref |-> value, ok |-> TRUE]

\* deleteRefKey(key): frees the wrapper key of the value stored under key.
deleteRefKey(e, key) ==
  LET value == Read(e.state[key])
  IN IF value.t \in {"obj", "undef"} /\ e.refMap[value.r] # NoKey
     THEN [e EXCEPT !.refKeys = @ \ {e.refMap[value.r]}]
     ELSE e

NoDiff == [has |-> FALSE, oldValue |-> Undef, newValue |-> Undef]
DiffOne(old, new) == [has |-> TRUE, oldValue |-> Read(old), newValue |-> new]

\* this.state[key] = value
Store(e, key, value) ==
  [e EXCEPT !.state[key] = value,
            !.keyOrder = IF has(e.state, key) THEN @ ELSE Append(@, key)]

\* delete this.state[key]
Remove(e, key) ==
  [e EXCEPT !.state[key] = Undef,
            !.keyOrder = SelectSeq(@, LAMBDA x: x # key)]

\* A faulty setValue: the shadow keeps the wrapper instead of the wrapped value.
setValueStoresWrapper(e, key, maybeRefValue, rnd) ==
  IF isObject(maybeRefValue)
  THEN LET w == ensureRefValue(e, maybeRefValue, rnd)
       IN IF UnwrapV(w.ref) # w.e.state[key]
          THEN [e |-> Store(deleteRefKey(w.e, key), key, w.ref),
                diff |-> DiffOne(w.e.state[key], UnwrapV(w.ref)), ok |-> w.ok]
          ELSE [e |-> w.e, diff |-> NoDiff, ok |-> w.ok]
  ELSE IF maybeRefValue = Undef
  THEN IF has(e.state, key)
       THEN [e |-> Remove(deleteRefKey(e, key), key),
             diff |-> DiffOne(e.state[key], Undef), ok |-> TRUE]
       ELSE [e |-> e, diff |-> NoDiff, ok |-> TRUE]
  ELSE IF maybeRefValue # e.state[key]
       THEN [e |-> Store(deleteRefKey(e, key), key, maybeRefValue),
             diff |-> DiffOne(e.state[key], maybeRefValue), ok |-> TRUE]
       ELSE [e |-> e, diff |-> NoDiff, ok |-> TRUE]

\* setValue(key, maybeRefValue): [e, diff (NoDiff stands for null), ok]
setValue(e, key, maybeRefValue, rnd) ==
  IF isObject(maybeRefValue)
  THEN LET w == ensureRefValue(e, maybeRefValue, rnd)
           v == UnwrapV(w.ref)
       IN IF v # Read(w.e.state[key])
          THEN [e |-> Store(deleteRefKey(w.e, key), key, Held(v)),
                diff |-> DiffOne(w.e.state[key], v), ok |-> w.ok]
          ELSE [e |-> w.e, diff |-> NoDiff, ok |-> w.ok]
  ELSE IF maybeRefValue = Undef
  THEN IF has(e.state, key)
       THEN [e |-> Remove(deleteRefKey(e, key), key),
             diff |-> DiffOne(e.state[key], Undef), ok |-> TRUE]
       ELSE [e |-> e, diff |-> NoDiff, ok |-> TRUE]
  ELSE IF maybeRefValue # e.state[key]
       THEN [e |-> Store(deleteRefKey(e, key), key, maybeRefValue),
             diff |-> DiffOne(e.state[key], maybeRefValue), ok |-> TRUE]
       ELSE [e |-> e, diff |-> NoDiff, ok |-> TRUE]

\* The keys replaceState visits: new Set([...keys(this.state), ...keys(state)]).
\* newKeys is the insertion order of the own keys of the incoming object.
UnionKeys(e, newKeys) ==
  e.keyOrder \o SelectSeq(newKeys, LAMBDA x: \A i \in 1..Len(e.keyOrder): e.keyOrder[i] # x)

\* The key the random generator gives while replaceState handles `key`.
RndAt(rnd, key) == IF key \in DOMAIN rnd THEN rnd[key] ELSE CHOOSE k \in Keys: TRUE

RECURSIVE replaceLoop(_, _, _, _, _, _)
replaceLoop(e, keys, newState, rnd, diff, ok) ==
  IF keys = <<>>
  THEN [e |-> e, diff |-> diff, ok |-> ok]
  ELSE LET key == Head(keys)
           one == setValue(e, key, newState[key], RndAt(rnd, key))
       IN replaceLoop(one.e, Tail(keys), newState, rnd,
                      IF one.diff.has THEN [diff EXCEPT ![key] = one.diff] ELSE diff,
                      ok /\ one.ok)

EmptyDiff == [k \in StateKeys |-> NoDiff]

\* A faulty replaceState: it visits the keys of the incoming object only.
replaceStateNewKeysOnly(e, newKeys, newState, rnd) ==
  LET res == replaceLoop(e, newKeys, newState, rnd, EmptyDiff, TRUE)
      dirty == \E k \in StateKeys: res.diff[k].has
  IN [e |-> res.e, null |-> ~dirty, diff |-> res.diff, ok |-> res.ok]

\* replaceState(state): [e, null (the returned value is null), diff, ok]
replaceState(e, newKeys, newState, rnd) ==
  LET res == replaceLoop(e, UnionKeys(e, newKeys), newState, rnd, EmptyDiff, TRUE)
      dirty == \E k \in StateKeys: res.diff[k].has
  IN [e |-> res.e, null |-> ~dirty, diff |-> res.diff, ok |-> res.ok]

----------------------------------------------------------------------------
\* The Refine engine alone: a caller applies setValue and ensureRefValue
\* (SpecRefine) or replaceState (SpecReplace) with inputs drawn from small sets.

\* The keys the callers write, apart from the one three-key example below.
UsedKeys == {"a", "b"}
\* The plain objects of the caller: distinct references, deep-equal content.
UserObjs == {Obj(r, 1) : r \in 1..NumObjs}
\* A wrapper made by another engine and decoded here: its object is the
\* reference after the caller's, its key is one this engine may draw too.
RemoteRefs == {NumObjs + 1}
RemoteKey(r) == "k1"
RemoteWrappers == {makeRefineValue(Obj(r, 2), RemoteKey(r)) : r \in RemoteRefs}
RefineInputs == {Undef} \cup {Prim(n) : n \in Prims} \cup UserObjs \cup RemoteWrappers

NoState == [k \in StateKeys |-> Undef]
\* {a: 1, b: 2} and {b: 1, c: 2}: the shape of the documented example
\* {a:1,b:2} -> {b:3,c:4} (a removed, b changed, c added).
ExampleOld == [NoState EXCEPT !["a"] = Prim(1), !["b"] = Prim(2)]
ExampleNew == [NoState EXCEPT !["b"] = Prim(1), !["c"] = Prim(2)]
ExampleDiff ==
  [a |-> DiffOne(Prim(1), Undef), b |-> DiffOne(Prim(2), Prim(1)), c |-> DiffOne(Undef, Prim(2))]

\* The incoming objects of replaceState (an absent key reads as undefined):
\* primitives, the caller's first object and the decoded wrappers under a and b,
\* and the three-key example.
ReplaceInputs ==
  {Undef} \cup {Prim(n) : n \in Prims} \cup {Obj(1, 1)} \cup RemoteWrappers
NewStates ==
  {f \in [StateKeys -> ReplaceInputs] : f["c"] = Undef} \cup {ExampleNew}
\* The own keys of an incoming object, in insertion order.
NewKeysOf(f) == SelectSeq(<<"a", "b", "c">>, LAMBDA k: f[k] # Undef)

\* What a complete diff from the shadow `pre` to the incoming object is.
ExpectedDiff(pre, newState) ==
  [k \in StateKeys |->
     IF UnwrapV(newState[k]) # pre[k] THEN DiffOne(pre[k], UnwrapV(newState[k])) ELSE NoDiff]

NoCall ==
  [op |-> "init", key |-> "", arg |-> Undef, null |-> TRUE, differed |-> FALSE,
   unchanged |-> TRUE, repeat |-> FALSE, exact |-> TRUE, isExample |-> FALSE,
   exampleOk |-> FALSE, prevKey |-> NoKey, retKey |-> NoKey]

SetEngine(e) ==
  /\ state' = e.state
  /\ keyOrder' = e.keyOrder
  /\ refMap' = e.refMap
  /\ refKeys' = e.refKeys

RefineInit ==
  /\ state = EmptyEngine.state
  /\ keyOrder = EmptyEngine.keyOrder
  /\ refMap = EmptyEngine.refMap
  /\ refKeys = EmptyEngine.refKeys
  /\ rLast = NoCall

RefineSetValue ==
  \E key \in UsedKeys, v \in RefineInputs, rnd \in Keys:
    \E res \in {setValue(Engine, key, v, rnd)}:
       /\ res.ok
       /\ SetEngine(res.e)
       /\ UNCHANGED notRefine
       /\ rLast' = [NoCall EXCEPT !.op = "setValue", !.key = key, !.arg = v,
                                  !.null = ~res.diff.has,
                                  !.differed = (UnwrapV(v) # state[key]),
                                  !.unchanged = (res.e.state = state),
                                  !.repeat = (rLast.op = "setValue" /\ rLast.key = key
                                              /\ rLast.arg = v)]

RefineReplaceState ==
  \E newState \in NewStates, rnd \in [UsedKeys -> Keys]:
    \E res \in {replaceState(Engine, NewKeysOf(newState), newState, rnd)},
       want \in {ExpectedDiff(state, newState)}:
       /\ res.ok
       /\ SetEngine(res.e)
       /\ UNCHANGED notRefine
       /\ rLast' = [NoCall EXCEPT !.op = "replaceState",
                                  !.null = res.null,
                                  !.differed = (\E k \in StateKeys: want[k].has),
                                  !.unchanged = (res.e.state = state),
                                  !.exact = (res.diff = want),
                                  !.isExample = (state = ExampleOld /\ newState = ExampleNew),
                                  !.exampleOk = (state = ExampleOld /\ newState = ExampleNew
                                                 /\ ~res.null /\ res.diff = ExampleDiff)]

RefineEnsureRefValue ==
  \E v \in UserObjs \cup RemoteWrappers, rnd \in Keys:
    \E res \in {ensureRefValue(Engine, v, rnd)}:
       /\ res.ok
       /\ SetEngine(res.e)
       /\ UNCHANGED notRefine
       /\ rLast' = [NoCall EXCEPT !.op = "ensureRefValue", !.arg = v,
                                  !.prevKey = refMap[v.r], !.retKey = res.ref.k]

RefineNext == RefineSetValue \/ RefineEnsureRefValue

ReplaceNext == RefineReplaceState \/ RefineEnsureRefValue

----------------------------------------------------------------------------
\* debounced(fn, timeout): the closure (timer, lastTime) and the host's timers.

Max(a, b) == IF a >= b THEN a ELSE b
Min(a, b) == IF a <= b THEN a ELSE b

\* The closure and the host's timer queue as a value.
Debounce == [timer |-> timer, lastTime |-> lastTime, timeouts |-> timeouts]

\* setTimeout(refresh, delay): a positive id no pending timeout has.
FreshTimerId(d) == CHOOSE i \in 1..(MaxTimers + 1): \A t \in d.timeouts: t.id # i

setTimeout(d, delay) ==
  [d EXCEPT !.timer = FreshTimerId(d),
            !.timeouts = @ \cup {[id |-> FreshTimerId(d), due |-> now + delay]}]

\* clearTimeout(id)
clearTimeout(d, id) == [d EXCEPT !.timeouts = {t \in @ : t.id # id}]

\* A faulty update(): it sets a timeout although one is pending.
updateNoGuard(d) == setTimeout(d, Max(0, d.lastTime + Timeout - now))

\* update(): if (timer > 0) return; timer = setTimeout(refresh, max(0, lastTime + timeout - now))
update(d) ==
  IF d.timer > 0 THEN d
  ELSE setTimeout(d, Max(0, d.lastTime + Timeout - now))

\* A faulty refresh(): it executes fn but leaves `timer` set.
refreshKeepsTimer(d, t) == [d EXCEPT !.lastTime = now, !.timeouts = @ \ {t}]

\* refresh(), run by the host for the timeout t: timer = 0; lastTime = Date.now(); fn()
refresh(d, t) ==
  [d EXCEPT !.timer = 0, !.lastTime = now, !.timeouts = @ \ {t}]

\* A faulty dispose(): it forgets the timer and leaves the timeout to the host.
disposeKeepsTimeout(d) == [d EXCEPT !.timer = 0]

\* update.dispose(): clearTimeout(timer); timer = 0
dispose(d) == [clearTimeout(d, d.timer) EXCEPT !.timer = 0]

SetDebounce(d) ==
  /\ timer' = d.timer
  /\ lastTime' = d.lastTime
  /\ timeouts' = d.timeouts

NoBurst == [start |-> 0, calls |-> 0, execs |-> 0, idle |-> FALSE]
\* dLast: pending that an execution was scheduled when dispose() was called,
\* due the time it was scheduled for.
NoDispose == [op |-> "none", pending |-> FALSE, due |-> 0]

DebounceInit ==
  /\ now = Timeout        \* Date.now() is far beyond lastTime = 0
  /\ timer = 0
  /\ lastTime = 0
  /\ timeouts = {}
  /\ dCalls = 0
  /\ dExecs = 0
  /\ dServed = 0
  /\ dGapOk = TRUE
  /\ burst = NoBurst
  /\ dLast = NoDispose

\* Time passes.
DebounceTick ==
  /\ now < MaxTime
  /\ now' = now + 1
  /\ UNCHANGED <<timer, lastTime, timeouts, dCalls, dExecs, dServed, dGapOk, burst, dLast>>
  /\ UNCHANGED notDebounce

\* A caller calls the debounced function.
DebounceUpdate ==
  /\ Cardinality(timeouts) < MaxTimers
  /\ SetDebounce(update(Debounce))
  /\ dCalls' = Min(dCalls + 1, BurstSize)
  /\ burst' = IF burst.calls = 0 \/ now >= burst.start + Timeout
               THEN [start |-> now, calls |-> 1, execs |-> 0,
                     idle |-> (timer = 0 /\ timeouts = {})]
               ELSE [burst EXCEPT !.calls = Min(@ + 1, BurstSize)]
  /\ dLast' = NoDispose
  /\ UNCHANGED <<now, dExecs, dServed, dGapOk>>
  /\ UNCHANGED notDebounce

\* The host runs a timeout that is due: refresh() executes fn.
DebounceRefresh ==
  \E t \in timeouts:
    /\ now >= t.due
    /\ SetDebounce(refresh(Debounce, t))
    /\ dExecs' = Min(dExecs + 1, 2)
    /\ dServed' = dCalls
    /\ dCalls' = 0
    /\ dGapOk' = (dGapOk /\ (dExecs = 0 \/ now >= lastTime + Timeout))
    /\ burst' = [burst EXCEPT !.execs = Min(@ + 1, 2)]
    /\ dLast' = NoDispose
    /\ UNCHANGED now
    /\ UNCHANGED notDebounce

\* A caller calls update.dispose().
DebounceDispose ==
  /\ SetDebounce(dispose(Debounce))
  /\ dCalls' = 0
  /\ burst' = NoBurst
  /\ dLast' = [op |-> "dispose", pending |-> (\E t \in timeouts: t.id = timer),
               due |-> IF \E t \in timeouts: t.id = timer
                       THEN (CHOOSE t \in timeouts: t.id = timer).due ELSE 0]
  /\ UNCHANGED <<now, dExecs, dServed, dGapOk>>
  /\ UNCHANGED notDebounce

DebounceNext == DebounceTick \/ DebounceUpdate \/ DebounceRefresh \/ DebounceDispose

\* A call made early enough for its timeout to be due before the clock stops.
DebounceUpdateInTime ==
  /\ now + Timeout <= MaxTime
  /\ DebounceUpdate

DebounceLiveNext ==
  DebounceTick \/ DebounceUpdateInTime \/ DebounceRefresh \/ DebounceDispose

----------------------------------------------------------------------------
\* Storage: one client's view of attributes[kStorage][namespace].

Callbacks == {1}
\* The primitive values of a Storage's keys.
StoragePrims == {1}

\* The value the tree keeps for v: an object loses its identity.
Encode(v) == IF isObject(v) THEN [v EXCEPT !.r = 0] ELSE v
\* toJS(value): a decoded object is a new object, of identity r.
toJS(enc, r) == IF isObject(enc) THEN [enc EXCEPT !.r = r] ELSE enc

\* The values other clients write under the namespace.
TreeInputs ==
  {Undef} \cup {Prim(n) : n \in StoragePrims} \cup {Encode(w) : w \in RemoteWrappers}
\* The values this client gives to setState.
StateInputs == {Undef} \cup {Prim(n) : n \in StoragePrims} \cup {Obj(1, 1)}
\* Storage.defaultState, and the namespaces the Storage finds when constructed.
DefaultState == [NoState EXCEPT !["a"] = Prim(1)]
DefaultStates == {NoState, DefaultState}

\* Storage.canOperate
canOperate == sPlugin /\ sWritable

\* The shadow value sv and the encoded value enc are the same value: the same
\* primitive, or the object of the same wrapper key with the same content.
SameValue(e, sv, enc) ==
  \/ sv.t = "undef" /\ enc.t = "undef"
  \/ sv.t = "prim" /\ enc.t = "prim" /\ sv.c = enc.c
  \/ sv.t = "obj" /\ enc.t = "ref" /\ e.refMap[sv.r] = enc.k /\ sv.c = enc.c

\* The actions of a batch: a sequence of [key, value], keys distinct.
BatchKeys(actions) == {actions[i].key : i \in 1..Len(actions)}
ChangedKeys(e, actions) ==
  {actions[i].key : i \in {n \in 1..Len(actions) :
                              ~SameValue(e, e.state[actions[n].key], actions[n].value)}}
ObjectsIn(actions) == Cardinality({i \in 1..Len(actions) : isObject(actions[i].value)})

\* The handler of listenNamespaceProps: for each action setValue(key, toJS(value)).
\* [e, diff, r (the next new identity)]
RECURSIVE handlerLoop(_, _, _, _)
handlerLoop(e, actions, diff, r) ==
  IF actions = <<>>
  THEN [e |-> e, diff |-> diff, r |-> r]
  ELSE LET action == Head(actions)
           value == toJS(action.value, r)
           one == setValue(e, action.key, value, NoKey)
       IN handlerLoop(one.e, Tail(actions),
                      IF one.diff.has THEN [diff EXCEPT ![action.key] = one.diff] ELSE diff,
                      IF isObject(value) THEN r + 1 ELSE r)

handler(e, actions, r) == handlerLoop(e, actions, EmptyDiff, r)

DiffKeys(diff) == {k \in StateKeys : diff[k].has}

\* The callback of the reaction of listenNamespace, for a namespace object raw:
\* notify(replaceState(toJS(raw))); stopListenProps(); listenNamespaceProps(raw)
RawActions(raw) ==
  LET keys == SelectSeq(<<"a", "b", "c">>, LAMBDA k: raw[k] # Undef)
  IN [i \in 1..Len(keys) |-> [key |-> keys[i], value |-> raw[keys[i]]]]

RECURSIVE toJSRaw(_, _, _)
toJSRaw(raw, keys, r) ==
  IF keys = <<>> THEN raw
  ELSE LET k == Head(keys)
       IN toJSRaw([raw EXCEPT ![k] = toJS(raw[k], r)], Tail(keys),
                  IF isObject(raw[k]) THEN r + 1 ELSE r)

reactionCallback(e, raw, r) ==
  LET keys == SelectSeq(<<"a", "b", "c">>, LAMBDA k: raw[k] # Undef)
      js == toJSRaw(raw, keys, r)
  IN replaceState(e, keys, js, [k \in UsedKeys |-> NoKey])

\* sLast: op is the operation, wrote that it called updateAttributes, by the
\* listener that ran ("handler" of listenNamespaceProps, "reaction" of
\* listenNamespace), events the stateChanged events emitted, called that a
\* stateChanged subscriber was called, changed that some reported key changed
\* its value, exact that the diff has exactly the keys that changed, covers
\* that the diff has every key that changed (an empty diff is not emitted), bad
\* the keys for which the batch had a malformed wrapper.
NoBatch ==
  [op |-> "none", wrote |-> FALSE, by |-> "none", events |-> 0, called |-> FALSE,
   changed |-> FALSE, exact |-> TRUE, covers |-> TRUE, bad |-> {}]

\* The tree reports `actions` for the namespace object: the handler runs if
\* attached, and emit('stateChanged', diff) calls every subscriber.
Report(e, actions, last) ==
  IF sListening
  THEN \E res \in {handler(e, actions, nextRef)}:
         /\ SetEngine(res.e)
         /\ nextRef' = res.r
         /\ sLast' = [last EXCEPT !.by = "handler",
                        !.events = IF DiffKeys(res.diff) # {} THEN 1 ELSE 0,
                        !.called = DiffKeys(res.diff) # {} /\ scSubs # {},
                        !.changed = ChangedKeys(e, actions) # {},
                        !.exact = (DiffKeys(res.diff) = ChangedKeys(e, actions))]
  ELSE /\ SetEngine(e)
       /\ UNCHANGED nextRef
       /\ sLast' = last

\* The keys whose value differs between the shadow and the namespace object raw.
ReplacedKeys(e, raw) == {k \in StateKeys : ~SameValue(e, e.state[k], raw[k])}

\* The namespace object raw replaces the one before: the reaction runs if live.
Replaced(raw, last) ==
  IF sReaction
  THEN \E res \in {reactionCallback(Engine, raw, nextRef)}:
         /\ res.ok
         /\ SetEngine(res.e)
         /\ nextRef' = nextRef + ObjectsIn(RawActions(raw))
         /\ sListening' = TRUE
         /\ sLast' = [last EXCEPT !.by = "reaction",
                        !.events = IF res.null THEN 0 ELSE 1,
                        !.called = ~res.null /\ scSubs # {},
                        !.changed = ~res.null,
                        !.covers = /\ ReplacedKeys(Engine, raw) \subseteq DiffKeys(res.diff)
                                   /\ (res.null => ReplacedKeys(Engine, raw) = {})]
  ELSE /\ UNCHANGED <<state, keyOrder, refMap, refKeys, nextRef>>
       /\ sListening' = FALSE
       /\ sLast' = last

\* The state after new Storage(plugin$, namespace, defaultState): the shadow is
\* the decoded namespace, or the default state when there is none.
StorageInit ==
  /\ sPlugin \in BOOLEAN
  /\ sWritable \in BOOLEAN
  /\ nsPresent \in BOOLEAN
  /\ nsPresent => sPlugin
  /\ nsTree \in DefaultStates
  /\ ~nsPresent => nsTree = NoState
  /\ state = IF nsPresent THEN nsTree ELSE DefaultState
  /\ keyOrder = SelectSeq(<<"a", "b", "c">>, LAMBDA k: state[k] # Undef)
  /\ refMap = EmptyEngine.refMap
  /\ refKeys = EmptyEngine.refKeys
  /\ sStore = {"plugin$", "teardown"}
  /\ sReaction = sPlugin
  /\ sListening = nsPresent
  /\ scSubs = {}
  /\ dcSubs = {}
  /\ nextRef = NumObjs + 1
  /\ disposeCalls = 0
  /\ dcCount = [cb \in Callbacks |-> 0]
  /\ dcAtFirst = {}
  /\ sLast = NoBatch

envVars == <<sPlugin, sWritable, nsPresent, nsTree>>
histVars == <<disposeCalls, dcCount, dcAtFirst, sLast>>

\* Storage.on(event, callback)
StorageOn ==
  \E cb \in Callbacks:
    /\ \/ scSubs' = scSubs \cup {cb} /\ UNCHANGED dcSubs
       \/ dcSubs' = dcSubs \cup {cb} /\ UNCHANGED scSubs
    /\ UNCHANGED <<state, keyOrder, refMap, refKeys, envVars, sStore, sReaction, sListening,
                   nextRef, histVars>>
    /\ UNCHANGED notStorage

\* The function Storage.on() returned is called.
StorageOff ==
  \E cb \in Callbacks:
    /\ \/ scSubs' = scSubs \ {cb} /\ UNCHANGED dcSubs
       \/ dcSubs' = dcSubs \ {cb} /\ UNCHANGED scSubs
    /\ UNCHANGED <<state, keyOrder, refMap, refKeys, envVars, sStore, sReaction, sListening,
                   nextRef, histVars>>
    /\ UNCHANGED notStorage

\* Storage.setState({[key]: v})
StorageSetState ==
  \E key \in UsedKeys, v \in StateInputs, rnd \in Keys:
    /\ IF canOperate
       THEN \E w \in {toRefValue(Engine, v, rnd)}:
              /\ w.ok
              /\ IF nsPresent
                 THEN /\ nextRef + ObjectsIn(<<[key |-> key, value |-> w.ref]>>) <= MaxRefs + 1
                      /\ nsTree' = [nsTree EXCEPT ![key] = Encode(w.ref)]
                      /\ Report(w.e, <<[key |-> key, value |-> Encode(w.ref)]>>,
                                [NoBatch EXCEPT !.op = "setState", !.wrote = TRUE])
                 ELSE /\ SetEngine(w.e)
                      /\ sLast' = [NoBatch EXCEPT !.op = "setState", !.wrote = TRUE]
                      /\ UNCHANGED <<nsTree, nextRef>>
       ELSE /\ sLast' = [NoBatch EXCEPT !.op = "setState"]
            /\ UNCHANGED <<state, keyOrder, refMap, refKeys, nsTree, nextRef>>
    /\ UNCHANGED <<sPlugin, sWritable, nsPresent, sStore, sReaction, sListening,
                   scSubs, dcSubs, disposeCalls, dcCount, dcAtFirst>>
    /\ UNCHANGED notStorage

\* Storage.resetState()
StorageResetState ==
  /\ IF canOperate
     THEN /\ nsTree' = DefaultState
          /\ nsPresent' = TRUE
          /\ Replaced(DefaultState, [NoBatch EXCEPT !.op = "resetState", !.wrote = TRUE])
     ELSE /\ sLast' = [NoBatch EXCEPT !.op = "resetState"]
          /\ UNCHANGED <<state, keyOrder, refMap, refKeys, nsTree, nsPresent, nextRef, sListening>>
  /\ UNCHANGED <<sPlugin, sWritable, sStore, sReaction, scSubs, dcSubs,
                 disposeCalls, dcCount, dcAtFirst>>
  /\ UNCHANGED notStorage

\* The batches the tree reports: one or two keys, each with a value another
\* client wrote or with the value it has (the same change delivered again).
ActionsOf(k) == {[key |-> k, value |-> v] : v \in TreeInputs \cup {nsTree[k]}}
Batches ==
  {<<x>> : x \in ActionsOf("a") \cup ActionsOf("b")}
    \cup {<<x, y>> : x \in ActionsOf("a"), y \in ActionsOf("b")}
ValueIn(actions, k) == actions[CHOOSE i \in 1..Len(actions) : actions[i].key = k].value

\* Another client changes keys of the namespace (or a change is delivered again).
TreeBatch ==
  /\ sPlugin /\ nsPresent
  /\ \E actions \in Batches:
       /\ nextRef + ObjectsIn(actions) <= MaxRefs + 1
       /\ nsTree' = [k \in StateKeys |-> IF k \in BatchKeys(actions)
                                          THEN ValueIn(actions, k) ELSE nsTree[k]]
       /\ Report(Engine, actions, [NoBatch EXCEPT !.op = "batch"])
  /\ UNCHANGED <<sPlugin, sWritable, nsPresent, sStore, sReaction, sListening,
                 scSubs, dcSubs, disposeCalls, dcCount, dcAtFirst>>
  /\ UNCHANGED notStorage

\* The wrappers without v that a faulty or foreign client writes.
MalformedWrappers == {[t |-> "ref", k |-> k, r |-> 0, c |-> 0] : k \in Keys}
isMalformed(v) == v.t = "ref" /\ v.c = 0
DecodeBatches ==
  {<<[key |-> "a", value |-> w], y>> : w \in MalformedWrappers, y \in ActionsOf("b")}
    \cup {<<x, [key |-> "b", value |-> w]>> : x \in ActionsOf("a"), w \in MalformedWrappers}

\* Another client changes two keys of the namespace, one to a malformed wrapper.
TreeDecode ==
  /\ sPlugin /\ nsPresent
  /\ \E actions \in DecodeBatches:
       /\ nextRef + ObjectsIn(actions) <= MaxRefs + 1
       /\ nsTree' = [k \in StateKeys |-> IF k \in BatchKeys(actions)
                                          THEN ValueIn(actions, k) ELSE nsTree[k]]
       /\ Report(Engine, actions,
                 [NoBatch EXCEPT !.op = "decode",
                    !.bad = {k \in BatchKeys(actions) : isMalformed(ValueIn(actions, k))}])
  /\ UNCHANGED <<sPlugin, sWritable, nsPresent, sStore, sReaction, sListening,
                 scSubs, dcSubs, disposeCalls, dcCount, dcAtFirst>>
  /\ UNCHANGED notStorage

\* Another client replaces (or creates) the namespace object.
TreeNamespace ==
  /\ sPlugin
  /\ \E raw \in {[NoState EXCEPT !["a"] = va, !["b"] = vb] : va, vb \in TreeInputs}:
       /\ nextRef + ObjectsIn(RawActions(raw)) <= MaxRefs + 1
       /\ nsTree' = raw
       /\ nsPresent' = TRUE
       /\ Replaced(raw, [NoBatch EXCEPT !.op = "namespace"])
  /\ UNCHANGED <<sPlugin, sWritable, sStore, sReaction, scSubs, dcSubs,
                 disposeCalls, dcCount, dcAtFirst>>
  /\ UNCHANGED notStorage

\* The plugin is destroyed: plugin$ gives the empty stand-in, whose attributes
\* are {}; the listeners mounted on the destroyed plugin no longer work.
PluginDestroy ==
  /\ sPlugin
  /\ sPlugin' = FALSE
  /\ nsPresent' = FALSE
  /\ nsTree' = NoState
  /\ sReaction' = FALSE
  /\ sListening' = FALSE
  /\ sLast' = [NoBatch EXCEPT !.op = "pluginDestroy"]
  /\ UNCHANGED <<state, keyOrder, refMap, refKeys, sWritable, sStore, scSubs, dcSubs,
                 nextRef, disposeCalls, dcCount, dcAtFirst>>
  /\ UNCHANGED notStorage

\* A plugin is created: plugin$ gives it, and the subscriber listenNamespace,
\* if still subscribed, mounts a reaction on its (empty) attributes; the
\* reaction fires at once with raw undefined, and `if (raw)` skips it.
PluginCreate ==
  /\ ~sPlugin
  /\ sPlugin' = TRUE
  /\ sReaction' = ("plugin$" \in sStore)
  /\ sLast' = [NoBatch EXCEPT !.op = "pluginCreate"]
  /\ UNCHANGED <<state, keyOrder, refMap, refKeys, sWritable, nsPresent, nsTree, sStore,
                 sListening, scSubs, dcSubs, nextRef, disposeCalls, dcCount, dcAtFirst>>
  /\ UNCHANGED notStorage

\* The room becomes writable or stops being so.
RoomWritableChanged ==
  /\ sWritable' = ~sWritable
  /\ UNCHANGED <<state, keyOrder, refMap, refKeys, sPlugin, nsPresent, nsTree, sStore,
                 sReaction, sListening, scSubs, dcSubs, nextRef, histVars>>
  /\ UNCHANGED notStorage

\* A faulty dispose(): the store keeps its disposers after running them.
StorageDisposeKeepsDisposers ==
  /\ disposeCalls < MaxDispose
  /\ disposeCalls' = disposeCalls + 1
  /\ dcAtFirst' = IF disposeCalls = 0 THEN dcSubs ELSE dcAtFirst
  /\ IF "teardown" \in sStore
     THEN /\ dcCount' = [cb \in Callbacks |->
                           IF cb \in dcSubs THEN Min(dcCount[cb] + 1, 2) ELSE dcCount[cb]]
          /\ scSubs' = {}
          /\ dcSubs' = {}
     ELSE UNCHANGED <<dcCount, scSubs, dcSubs>>
  /\ sStore' = sStore \ {"plugin$"}
  /\ sLast' = NoBatch
  /\ UNCHANGED <<state, keyOrder, refMap, refKeys, envVars, sReaction, sListening, nextRef>>
  /\ UNCHANGED notStorage

\* Storage.dispose(): the store runs its disposers and forgets them.  The first
\* unsubscribes listenNamespace from plugin$ (the reaction and the handler that
\* listenNamespace mounted are not stopped: what it returned was dropped); the
\* second emits 'disconnected' and clears both sets of subscribers.
StorageDispose ==
  /\ disposeCalls < MaxDispose
  /\ disposeCalls' = disposeCalls + 1
  /\ dcAtFirst' = IF disposeCalls = 0 THEN dcSubs ELSE dcAtFirst
  /\ IF "teardown" \in sStore
     THEN /\ dcCount' = [cb \in Callbacks |->
                           IF cb \in dcSubs THEN Min(dcCount[cb] + 1, 2) ELSE dcCount[cb]]
          /\ scSubs' = {}
          /\ dcSubs' = {}
     ELSE UNCHANGED <<dcCount, scSubs, dcSubs>>
  /\ sStore' = {}
  /\ sLast' = NoBatch
  /\ UNCHANGED <<state, keyOrder, refMap, refKeys, envVars, sReaction, sListening, nextRef>>
  /\ UNCHANGED notStorage

\* The defaultState arguments: none, null, a falsy primitive (0, '', false,
\* NaN), truthy primitives, and the objects {} and { a: 1 }.
Null == [t |-> "null", k |-> NoKey, r |-> 0, c |-> 0]
DefaultInputs == {Undef, Null, Prim(0), Prim(1), Prim(2), Obj(1, 1), Obj(1, 2)}
\* The own keys of an object given as default state, by its content.
StateOf(obj) == IF obj.c = 2 THEN DefaultState ELSE NoState

\* ToBoolean(v) of JavaScript.
truthy(v) == isObject(v) \/ (v.t = "prim" /\ v.c # 0)

\* `readonly defaultState = {} as S`: an argument left out is {}.
defaultParameter(d) == IF d = Undef THEN Obj(1, 1) ELSE d

\* assertObject(obj, method) throws.
assertObjectThrows(obj) == ~isObject(obj)

\* The constructor throws: its own check (defaultState && !isObject(defaultState)),
\* or assertObject of replaceState under new Refine(toJS(read()) || defaultState),
\* which gets defaultState when there is no namespace.
constructorThrows(d, present) ==
  \/ truthy(defaultParameter(d)) /\ ~isObject(defaultParameter(d))
  \/ ~present /\ assertObjectThrows(defaultParameter(d))

\* Before new Storage(plugin$, namespace, defaultState): a tree and an argument.
ConstructInit ==
  /\ sPlugin \in BOOLEAN
  /\ sWritable \in BOOLEAN
  /\ nsPresent \in BOOLEAN
  /\ nsPresent => sPlugin
  /\ nsTree \in DefaultStates
  /\ ~nsPresent => nsTree = NoState
  /\ state = NoState
  /\ keyOrder = <<>>
  /\ refMap = EmptyEngine.refMap
  /\ refKeys = EmptyEngine.refKeys
  /\ sStore = {}
  /\ sReaction = FALSE
  /\ sListening = FALSE
  /\ scSubs = {}
  /\ dcSubs = {}
  /\ nextRef = NumObjs + 1
  /\ disposeCalls = 0
  /\ dcCount = [cb \in Callbacks |-> 0]
  /\ dcAtFirst = {}
  /\ sLast = NoBatch
  /\ ctorDefault \in DefaultInputs
  /\ ctorResult = "none"

\* new Storage(plugin$, namespace, defaultState)
StorageConstruct ==
  /\ ctorResult = "none"
  /\ IF constructorThrows(ctorDefault, nsPresent)
     THEN /\ ctorResult' = "threw"
          /\ UNCHANGED <<state, keyOrder, sStore, sReaction, sListening>>
     ELSE /\ ctorResult' = "constructed"
          /\ state' = IF nsPresent THEN nsTree ELSE StateOf(defaultParameter(ctorDefault))
          /\ keyOrder' = SelectSeq(<<"a", "b", "c">>, LAMBDA k: state'[k] # Undef)
          /\ sStore' = {"plugin$", "teardown"}
          /\ sReaction' = sPlugin
          /\ sListening' = nsPresent
  /\ UNCHANGED <<refMap, refKeys, envVars, scSubs, dcSubs, nextRef, histVars, ctorDefault>>
  /\ UNCHANGED notCtor

ConstructNext == StorageConstruct

CtorIdle ==
  /\ ctorDefault = Undef
  /\ ctorResult = "none"

\* A Storage in use, over a plugin that comes and goes.
StorageNext ==
  \/ StorageOn
  \/ StorageOff
  \/ StorageSetState
  \/ StorageResetState
  \/ TreeBatch
  \/ TreeNamespace
  \/ PluginDestroy
  \/ PluginCreate
  \/ RoomWritableChanged

\* A Storage that receives batches of other clients, malformed values among them.
DecodeNext ==
  \/ StorageOn
  \/ StorageOff
  \/ TreeBatch
  \/ TreeDecode

\* A Storage that is used and disposed, over one plugin.
DisposeNext ==
  \/ StorageOn
  \/ StorageOff
  \/ StorageSetState
  \/ StorageResetState
  \/ TreeBatch
  \/ RoomWritableChanged
  \/ StorageDispose

----------------------------------------------------------------------------
\* Callbacks that throw: the subscribers of a Storage event and the function
\* given to debounced().

IsoCallbacks == {1, 2}
Subscribed == {eSubs[i] : i \in 1..Len(eSubs)}

\* for (const fn of subscribers) { fn(data) }, with or without the try/catch
\* around the call: the subscribers called, and whether an exception of one of
\* `throwers` was met and whether it left the loop.
RECURSIVE emitLoop(_, _, _, _)
emitLoop(subs, throwers, catch, called) ==
  IF subs = <<>>
  THEN [called |-> called, threw |-> called \cap throwers # {}, escaped |-> FALSE]
  ELSE IF Head(subs) \in throwers /\ ~catch
       THEN [called |-> called \cup {Head(subs)}, threw |-> TRUE, escaped |-> TRUE]
       ELSE emitLoop(Tail(subs), throwers, catch, called \cup {Head(subs)})

\* A faulty emit(): the call of a subscriber is not guarded.
emitNoCatch(subs, throwers) == emitLoop(subs, throwers, FALSE, {})

\* Storage.emit(event, data): try { fn(data) } catch (error) { console.error(error) }
emit(subs, throwers) == emitLoop(subs, throwers, TRUE, {})

\* try { fn() } catch (err) { console.error(err) } of refresh()
tryFn(throws) == [threw |-> throws, escaped |-> FALSE]

\* iLast: op is the step, threw that a callback threw in it, escaped that the
\* exception reached the caller, missed that a subscriber was not called,
\* earlier the kinds of step in which a callback threw before.
NoStep == [op |-> "none", threw |-> FALSE, escaped |-> FALSE, missed |-> FALSE, earlier |-> {}]
Step(op, res, missed) ==
  [op |-> op, threw |-> res.threw, escaped |-> res.escaped, missed |-> missed,
   earlier |-> IF iLast.threw THEN iLast.earlier \cup {iLast.op} ELSE iLast.earlier]

IsoIdle ==
  /\ eSubs = <<>>
  /\ iLast = NoStep

\* Storage.on(event, callback): Set.add
IsoOn ==
  \E cb \in IsoCallbacks \ Subscribed:
    /\ eSubs' = Append(eSubs, cb)
    /\ iLast' = Step("on", tryFn(FALSE), FALSE)
    /\ UNCHANGED <<debounceVars, notIso>>

\* The function on() returned: Set.delete
IsoOff ==
  \E cb \in Subscribed:
    /\ eSubs' = SelectSeq(eSubs, LAMBDA x: x # cb)
    /\ iLast' = Step("off", tryFn(FALSE), FALSE)
    /\ UNCHANGED <<debounceVars, notIso>>

\* Storage.emit(event, data), some of the subscribers throwing.
IsoEmit ==
  \E throwers \in SUBSET IsoCallbacks:
  \E res \in {emit(eSubs, throwers)}:
    /\ iLast' = Step("emit", res, res.called # Subscribed)
    /\ UNCHANGED eSubs
    /\ UNCHANGED <<debounceVars, notIso>>

\* A caller calls the debounced function.
IsoUpdate ==
  /\ Cardinality(timeouts) < MaxTimers
  /\ SetDebounce(update(Debounce))
  /\ iLast' = Step("update", tryFn(FALSE), FALSE)
  /\ UNCHANGED <<now, dCalls, dExecs, dServed, dGapOk, burst, dLast, eSubs>>
  /\ UNCHANGED notIso

\* The host runs a timeout that is due: refresh() executes fn, which may throw.
IsoRefresh ==
  \E t \in timeouts, throws \in BOOLEAN:
    /\ now >= t.due
    /\ SetDebounce(refresh(Debounce, t))
    /\ iLast' = Step("refresh", tryFn(throws), FALSE)
    /\ UNCHANGED <<now, dCalls, dExecs, dServed, dGapOk, burst, dLast, eSubs>>
    /\ UNCHANGED notIso

IsolationNext == IsoOn \/ IsoOff \/ IsoEmit \/ IsoUpdate \/ IsoRefresh \/ DebounceTick

----------------------------------------------------------------------------
\* The camera of the main view, shared through attributes['camera'].
\* Client c has observerId c.  centerX stands for the pair centerX, centerY:
\* the code carries both the same way.  A scale is kept in units of 1/ScaleOne.

Clients == {1, 2}
observerId(c) == c
\* The clients that use freedom mode, that may be without write permission,
\* and whose effective rectangle changes; the others stay out of freedom mode,
\* writable, and BaseWidth wide.
FreedomClients == {1}
ReadOnlyClients == {2}
ResizingClients == {2}
\* ~x
Complement(x) == (-x) - 1

BaseWidth == 1280
Widths == {640, 1280}
ScaleOne == 4
Centers == {0, 1}
\* The logical scale the clients ask for; the device scale differs by width.
LogicalScales == {ScaleOne}

\* A faulty scaling: the logical scale is shown as it is, whatever the width.
TimesFactorIgnoresWidth(scale, w) == scale

\* scale * localScaleFactor and scale / localScaleFactor, for width w
TimesFactor(scale, w) == (scale * w) \div BaseWidth
OverFactor(scale, w) == (scale * BaseWidth) \div w

NoCamera == [some |-> FALSE, centerX |-> 0, scale |-> 0, id |-> 0]
Camera(x, scale, id) == [some |-> TRUE, centerX |-> x, scale |-> scale, id |-> id]
View(x, scale) == [centerX |-> x, scale |-> scale]
\* an argument the caller left out
Omitted == -1

\* const { centerX = 0, centerY = 0, scale = 1 } = this.attributes['camera'] || {}
OrDefault(camera) == IF camera.some THEN camera ELSE Camera(0, ScaleOne, 0)
\* mainView.moveCamera({ ...camera, scale: camera.scale * localScaleFactor })
Applied(camera, w) == View(camera.centerX, TimesFactor(camera.scale, w))

\* A faulty camera state: the device scale of the main view as it is.
cameraStateDeviceScale(c) == View(mainView[c].centerX, mainView[c].scale)

\* WindowManager.cameraState
cameraState(c) == View(mainView[c].centerX, OverFactor(mainView[c].scale, cWidth[c]))

\* cLast: op is "observe" when the camera reaction ran, own that the record it
\* saw has the client's id, comp that it has the complement of the client's id,
\* moved that the reaction called mainView.moveCamera, exact that it left the
\* main view at the record's centre and at the record's scale times the
\* client's width over BaseWidth, originator that it scheduled syncMainView;
\* by is the operation ("deliver", "sync",
\* "moveCamera"), free the freedom flag of its client, wrote that a record
\* was written; for moveCamera: immediately is the
\* mode, kept that the call itself left the main view alone, local that the
\* call itself put the main view at the target, merged that the record has the
\* caller's fields and the current camera state for the fields left out.
NoObserve ==
  [op |-> "none", own |-> FALSE, moved |-> FALSE, by |-> "none", comp |-> FALSE,
   exact |-> FALSE, free |-> FALSE, wrote |-> FALSE, immediately |-> FALSE, kept |-> TRUE,
   local |-> FALSE, merged |-> FALSE, originator |-> FALSE, fromFree |-> FALSE]
Operation(by, c) == [NoObserve EXCEPT !.by = by, !.free = freedom[c]]
\* The reaction of client c ran for `camera` with the result res.
Observed(last, c, camera, res) ==
  [last EXCEPT !.op = "observe", !.own = res.own, !.moved = res.moved,
               !.originator = res.originator,
               !.comp = (camera.id = Complement(observerId(c))),
               !.exact = /\ res.view.centerX = camera.centerX
                         /\ res.view.scale * BaseWidth = camera.scale * cWidth[c]]

\* A faulty camera reaction: it applies every record, its own too.
cameraReactionAlwaysApplies(c, camera, view) ==
  IF freedom[c]
  THEN [view |-> view, own |-> FALSE, moved |-> FALSE, originator |-> FALSE]
  ELSE LET cam == IF camera.some THEN camera
                  ELSE Camera(0, ScaleOne, Complement(observerId(c)))
       IN [view |-> Applied(cam, cWidth[c]), own |-> observerId(c) = cam.id, moved |-> TRUE,
           originator |-> cam.id \in {observerId(c), Complement(observerId(c))}]

\* A faulty camera reaction: it leaves the main view alone for a record with
\* the complement of the client's id as it does for one with the client's id.
cameraReactionSkipsComplement(c, camera, view) ==
  IF freedom[c]
  THEN [view |-> view, own |-> FALSE, moved |-> FALSE, originator |-> FALSE]
  ELSE LET cam == IF camera.some THEN camera
                  ELSE Camera(0, ScaleOne, Complement(observerId(c)))
           originator == cam.id \in {observerId(c), Complement(observerId(c))}
       IN IF ~originator
          THEN [view |-> Applied(cam, cWidth[c]), own |-> FALSE, moved |-> TRUE,
                originator |-> FALSE]
          ELSE [view |-> view, own |-> observerId(c) = cam.id, moved |-> FALSE,
                originator |-> TRUE]

\* The camera reaction of client c for the record `camera`, the main view being
\* at `view`: [view (after), own (the record has the client's id), moved
\* (mainView.moveCamera was called), originator (syncMainView was scheduled)].
\* syncMainView() sends the scene focus and leaves cameras alone.
cameraReaction(c, camera, view) ==
  IF freedom[c]
  THEN [view |-> view, own |-> FALSE, moved |-> FALSE, originator |-> FALSE]
  ELSE LET cam == IF camera.some THEN camera
                  ELSE Camera(0, ScaleOne, Complement(observerId(c)))
           originator == cam.id \in {observerId(c), Complement(observerId(c))}
       IN IF observerId(c) # cam.id
          THEN [view |-> Applied(cam, cWidth[c]), own |-> FALSE, moved |-> TRUE,
                originator |-> originator]
          ELSE [view |-> view, own |-> TRUE, moved |-> FALSE, originator |-> originator]

\* setAttributes({ camera }) by client c, whose main view is at `view`: without
\* a writer nothing happens; else the record is in the replica at once, where
\* the client's own reaction sees it, and on its way to the other clients.
SetCamera(c, camera, view, last) ==
  IF cWritable[c]
  THEN \E res \in {cameraReaction(c, camera, view)}:
         /\ cShared' = camera
         /\ cAttr' = [cAttr EXCEPT ![c] = camera]
         /\ cPend' = [d \in Clients |-> d # c /\ cJoined[d]]
         /\ mainView' = [mainView EXCEPT ![c] = res.view]
         /\ cLast' = [Observed(last, c, camera, res) EXCEPT !.wrote = TRUE]
  ELSE /\ mainView' = [mainView EXCEPT ![c] = view]
       /\ cLast' = last
       /\ UNCHANGED <<cShared, cAttr, cPend>>

\* The state after the first client constructed its WindowManager: no camera
\* was written yet, every main view shows the default camera.
CameraInit ==
  /\ cShared = NoCamera
  /\ cAttr = [c \in Clients |-> NoCamera]
  /\ cPend = [c \in Clients |-> FALSE]
  /\ cJoined \in {[c \in Clients |-> c = 1], [c \in Clients |-> TRUE]}
  /\ cWritable \in [Clients -> BOOLEAN]
  /\ freedom = [c \in Clients |-> FALSE]
  /\ cWidth \in [Clients -> Widths]
  /\ \A c \in Clients: ~cJoined[c] => (cWidth[c] = BaseWidth /\ ~cWritable[c])
  /\ \A c \in Clients: (cJoined[c] /\ c \notin ReadOnlyClients) => cWritable[c]
  /\ \A c \in Clients: c \notin ResizingClients => cWidth[c] = BaseWidth
  /\ mainView = [c \in Clients |-> Applied(OrDefault(NoCamera), cWidth[c])]
  /\ syncTimer = [c \in Clients |-> FALSE]
  /\ syncFree = [c \in Clients |-> FALSE]
  /\ cLast = NoObserve

\* new WindowManager(...) on a client that joins late: the subscription to the
\* effective rectangle runs at once and shows the camera of the replica.
CameraJoin ==
  \E c \in Clients, w \in Widths, canWrite \in BOOLEAN:
    /\ ~cJoined[c]
    /\ c \notin ReadOnlyClients => canWrite
    /\ c \notin ResizingClients => w = BaseWidth
    /\ cJoined' = [cJoined EXCEPT ![c] = TRUE]
    /\ cWritable' = [cWritable EXCEPT ![c] = canWrite]
    /\ cWidth' = [cWidth EXCEPT ![c] = w]
    /\ cAttr' = [cAttr EXCEPT ![c] = cShared]
    /\ cPend' = [cPend EXCEPT ![c] = FALSE]
    /\ mainView' = [mainView EXCEPT ![c] = Applied(OrDefault(cShared), w)]
    /\ cLast' = NoObserve
    /\ UNCHANGED <<cShared, freedom, syncTimer, syncFree>>
    /\ UNCHANGED notCamera

\* The user pans or zooms the main view: onCameraUpdatedByDevice calls the
\* debounced syncCameraToRemote, which schedules itself unless scheduled.
CameraUpdatedByDevice ==
  \E c \in Clients, x \in Centers, scale \in LogicalScales:
    /\ cJoined[c]
    /\ mainView[c] # View(x, TimesFactor(scale, cWidth[c]))
    /\ mainView' = [mainView EXCEPT ![c] = View(x, TimesFactor(scale, cWidth[c]))]
    /\ syncTimer' = [syncTimer EXCEPT ![c] = TRUE]
    /\ syncFree' = [syncFree EXCEPT ![c] = freedom[c] /\ (syncTimer[c] => syncFree[c])]
    /\ cLast' = NoObserve
    /\ UNCHANGED <<cShared, cAttr, cPend, cJoined, cWritable, freedom, cWidth>>
    /\ UNCHANGED notCamera

\* The timer of syncCameraToRemote fires.
SyncCameraToRemote ==
  \E c \in Clients:
    /\ syncTimer[c]
    /\ syncTimer' = [syncTimer EXCEPT ![c] = FALSE]
    /\ syncFree' = [syncFree EXCEPT ![c] = FALSE]
    /\ LET last == [Operation("sync", c) EXCEPT !.fromFree = syncFree[c]]
       IN IF freedom[c]
          THEN /\ cLast' = last
               /\ UNCHANGED <<cShared, cAttr, cPend, mainView>>
          ELSE SetCamera(c, Camera(mainView[c].centerX,
                                   OverFactor(mainView[c].scale, cWidth[c]),
                                   observerId(c)),
                         mainView[c], last)
    /\ UNCHANGED <<cJoined, cWritable, freedom, cWidth>>
    /\ UNCHANGED notCamera

\* A faulty id: the complement of the caller's id in either mode.
moveCameraIdComplement(c, local) == Complement(observerId(c))

\* let id = ~observerId; if (immediately || freedom) id = observerId
moveCameraId(c, local) == IF local THEN observerId(c) ELSE Complement(observerId(c))

\* The view is where moveCamera({ centerX: x, scale }) asks for, the main view
\* having been at `before`: a field left out stays, a scale is times w / BaseWidth.
AtTarget(view, before, x, scale, w) ==
  /\ view.centerX = (IF x = Omitted THEN before.centerX ELSE x)
  /\ IF scale = Omitted THEN view.scale = before.scale
                         ELSE view.scale * BaseWidth = scale * w
\* The record has the caller's fields, and for a field left out the camera
\* state the main view `before` stands for.
Merged(camera, before, x, scale, w) ==
  /\ camera.centerX = (IF x = Omitted THEN before.centerX ELSE x)
  /\ IF scale = Omitted THEN camera.scale * w = before.scale * BaseWidth
                         ELSE camera.scale = scale

\* WindowManager.moveCamera({ centerX: x, scale, animationMode })
CameraMoveCamera ==
  \E c \in Clients, x \in Centers \cup {Omitted}, scale \in LogicalScales \cup {Omitted},
     immediately \in BOOLEAN:
    /\ cJoined[c]
    /\ LET now0 == cameraState(c)
           local == immediately \/ freedom[c]
           id == moveCameraId(c, local)
           view == IF local
                   THEN View(IF x = Omitted THEN mainView[c].centerX ELSE x,
                             TimesFactor(IF scale = Omitted THEN now0.scale ELSE scale,
                                         cWidth[c]))
                   ELSE mainView[c]
           camera == Camera(IF x = Omitted THEN now0.centerX ELSE x,
                            IF scale = Omitted THEN now0.scale ELSE scale,
                            id)
           last == [Operation("moveCamera", c) EXCEPT
                      !.immediately = immediately,
                      !.kept = (view = mainView[c]),
                      !.local = AtTarget(view, mainView[c], x, scale, cWidth[c]),
                      !.merged = Merged(camera, mainView[c], x, scale, cWidth[c])]
       IN IF freedom[c]
          THEN /\ mainView' = [mainView EXCEPT ![c] = view]
               /\ cLast' = last
               /\ UNCHANGED <<cShared, cAttr, cPend>>
          ELSE SetCamera(c, camera, view, last)
    /\ UNCHANGED <<cJoined, cWritable, freedom, cWidth, syncTimer, syncFree>>
    /\ UNCHANGED notCamera

\* WindowManager.cameraState of window-manager.tsx: the camera of the replica,
\* and in freedom mode the camera of the main view over localScaleFactor.
legacyCameraState(c) ==
  IF freedom[c]
  THEN View(mainView[c].centerX, OverFactor(mainView[c].scale, cWidth[c]))
  ELSE View(OrDefault(cAttr[c]).centerX, OrDefault(cAttr[c]).scale)

\* WindowManager.moveCamera({ centerX: x, scale, animationMode }) of
\* window-manager.tsx: the freedom flag is not looked at.
LegacyMoveCamera ==
  \E c \in Clients, x \in Centers \cup {Omitted}, scale \in LogicalScales \cup {Omitted},
     immediately \in BOOLEAN:
    /\ cJoined[c]
    /\ LET now0 == legacyCameraState(c)
           id == moveCameraId(c, immediately)
           view == IF immediately
                   THEN View(IF x = Omitted THEN mainView[c].centerX ELSE x,
                             TimesFactor(IF scale = Omitted THEN now0.scale ELSE scale,
                                         cWidth[c]))
                   ELSE mainView[c]
           camera == Camera(IF x = Omitted THEN now0.centerX ELSE x,
                            IF scale = Omitted THEN now0.scale ELSE scale,
                            id)
           last == [Operation("moveCamera", c) EXCEPT
                      !.immediately = immediately,
                      !.kept = (view = mainView[c])]
       IN SetCamera(c, camera, view, last)
    /\ UNCHANGED <<cJoined, cWritable, freedom, cWidth, syncTimer, syncFree>>
    /\ UNCHANGED notCamera

\* A write of another client reaches the replica of client c: the camera
\* reaction runs.
CameraDeliver ==
  \E c \in Clients:
    /\ cJoined[c] /\ cPend[c]
    /\ cPend' = [cPend EXCEPT ![c] = FALSE]
    /\ cAttr' = [cAttr EXCEPT ![c] = cShared]
    /\ \E res \in {cameraReaction(c, cShared, mainView[c])}:
         /\ mainView' = [mainView EXCEPT ![c] = res.view]
         /\ cLast' = Observed(Operation("deliver", c), c, cShared, res)
    /\ UNCHANGED <<cShared, cJoined, cWritable, freedom, cWidth, syncTimer, syncFree>>
    /\ UNCHANGED notCamera

\* The effective rectangle of client c changes: the subscription shows the
\* camera of the replica at the new width.
CameraResize ==
  \E c \in ResizingClients, w \in Widths:
    /\ cJoined[c]
    /\ w # cWidth[c]
    /\ cWidth' = [cWidth EXCEPT ![c] = w]
    /\ mainView' = [mainView EXCEPT ![c] = Applied(OrDefault(cAttr[c]), w)]
    /\ cLast' = NoObserve
    /\ UNCHANGED <<cShared, cAttr, cPend, cJoined, cWritable, freedom, syncTimer, syncFree>>
    /\ UNCHANGED notCamera

\* WindowManager.setFreedom(f): leaving freedom shows the camera of the replica.
CameraSetFreedom ==
  \E c \in FreedomClients, f \in BOOLEAN:
    /\ cJoined[c]
    /\ f # freedom[c]
    /\ freedom' = [freedom EXCEPT ![c] = f]
    /\ mainView' = [mainView EXCEPT ![c] =
                      IF f THEN mainView[c] ELSE Applied(OrDefault(cAttr[c]), cWidth[c])]
    /\ cLast' = NoObserve
    /\ UNCHANGED <<cShared, cAttr, cPend, cJoined, cWritable, cWidth, syncTimer, syncFree>>
    /\ UNCHANGED notCamera

\* The room of client c becomes writable or stops being so.
CameraWritableChanged ==
  \E c \in ReadOnlyClients:
    /\ cJoined[c]
    /\ cWritable' = [cWritable EXCEPT ![c] = ~cWritable[c]]
    /\ cLast' = NoObserve
    /\ UNCHANGED <<cShared, cAttr, cPend, cJoined, freedom, cWidth, mainView, syncTimer, syncFree>>
    /\ UNCHANGED notCamera

CameraNext ==
  \/ CameraJoin
  \/ CameraUpdatedByDevice
  \/ SyncCameraToRemote
  \/ CameraMoveCamera
  \/ CameraDeliver
  \/ CameraResize
  \/ CameraSetFreedom
  \/ CameraWritableChanged

LegacyCameraNext ==
  \/ CameraJoin
  \/ CameraUpdatedByDevice
  \/ SyncCameraToRemote
  \/ LegacyMoveCamera
  \/ CameraDeliver
  \/ CameraResize
  \/ CameraSetFreedom
  \/ CameraWritableChanged

\* No WindowManager is constructed.
CameraIdle ==
  /\ cShared = NoCamera
  /\ cAttr = [c \in Clients |-> NoCamera]
  /\ cPend = [c \in Clients |-> FALSE]
  /\ cJoined = [c \in Clients |-> FALSE]
  /\ cWritable = [c \in Clients |-> FALSE]
  /\ freedom = [c \in Clients |-> FALSE]
  /\ cWidth = [c \in Clients |-> BaseWidth]
  /\ mainView = [c \in Clients |-> Applied(OrDefault(NoCamera), BaseWidth)]
  /\ syncTimer = [c \in Clients |-> FALSE]
  /\ syncFree = [c \in Clients |-> FALSE]
  /\ cLast = NoObserve

----------------------------------------------------------------------------
\* WindowManagerImpl: permission, the attributes it writes, pages and windows
\* (part_002 380-417, 457-492, 588-662; app.ts; utils.ts 97-111).
\* One client is modelled with its replica of the attributes; the writes of the
\* other clients arrive as RemoteMeta and RemoteDelete.  The record the camera
\* holds and the main view are in the camera specification; here the tree only
\* tells whether a camera record was written.

\* The ids nextAppId can make: one kind, two random suffixes.
AppIds == {1, 2}
\* The namespace of a Storage that is not the storage of an app.
MainNamespace == 0
\* The z-index values telebox gives a box.
Zs == {0, 1}
\* The values manager.now takes.
Times == {100, 200}
\* The room has at most MaxPages scenes.
MaxPages == 2

\* attributes.apps[id]: full is FALSE for an entry that has a position.z only.
NoMeta == [some |-> FALSE, full |-> FALSE, x |-> 0, width |-> 0, z |-> 0, createdAt |-> 0]
Meta(x, width, z, createdAt) ==
  [some |-> TRUE, full |-> TRUE, x |-> x, width |-> width, z |-> z, createdAt |-> createdAt]
\* A telebox box: intrinsicX, intrinsicWidth, zIndex (y and height go as x and width).
NoBox == [held |-> FALSE, x |-> 0, width |-> 0, z |-> 0]
Box(x, width, z) == [held |-> TRUE, x |-> x, width |-> width, z |-> z]

\* mLast: the last call, plugin and room as plugin$.value and isRoomWritable
\* were when it began, writes the number of updateAttributes, setAttributes and scene
\* calls it made, threw that it ended with an exception, caught that an
\* exception ended in the try/catch of debounced(), scheduled that it made a
\* debounced handler schedule itself, changed that it changed a box.
NoOp ==
  [op |-> "none", plugin |-> FALSE, room |-> FALSE, writes |-> 0, threw |-> FALSE,
   caught |-> FALSE, scheduled |-> FALSE, changed |-> FALSE]

\* A faulty writer(): it gives the plugin whatever the room allows.
writerIgnoresRoom == mPlugin

\* WindowManagerImpl.writer() gives the plugin
writer == mPlugin /\ mWritable
ManagerOp(op) == [NoOp EXCEPT !.op = op, !.plugin = mPlugin, !.room = mWritable]

\* nextAppId(exist, kind): the first of the random ids that is not in exist.
nextAppId(exist, rnds) == IF rnds[1] \notin exist THEN rnds[1] ELSE rnds[2]

\* mergeAttributes(w, a, { [key]: {} }): the number of updateAttributes calls,
\* one when a[key] is undefined and none when it is an object.
mergeEmpty(present) == IF present THEN 0 ELSE 1

\* The state after construction: no attribute is written, no window exists.
ManagerInit ==
  /\ mPlugin \in BOOLEAN
  /\ mWritable \in BOOLEAN
  /\ tRegistry = [some |-> FALSE, kinds |-> {}]
  /\ tStorage = [some |-> FALSE, ns |-> {}]
  /\ tApps = [some |-> FALSE, metas |-> [id \in AppIds |-> NoMeta]]
  /\ tCamera = FALSE
  /\ pageIndex = 0
  /\ pageCount = 1
  /\ boxes = [id \in AppIds |-> NoBox]
  /\ created = <<>>
  /\ moveTimer = FALSE
  /\ resizeTimer = FALSE
  /\ mLast = NoOp

windowVars == <<boxes, created, moveTimer, resizeTimer>>
treeVars == <<tRegistry, tStorage, tApps, tCamera>>
pageVars == <<pageIndex, pageCount>>

\* plugin$ changes between the empty stand-in and a plugin instance.
ManagerPluginChanged ==
  /\ mPlugin' = ~mPlugin
  /\ mLast' = NoOp
  /\ UNCHANGED <<mWritable, treeVars, pageVars, windowVars>>
  /\ UNCHANGED notManager

\* The room becomes writable or stops being so.
ManagerWritableChanged ==
  /\ mWritable' = ~mWritable
  /\ mLast' = NoOp
  /\ UNCHANGED <<mPlugin, treeVars, pageVars, windowVars>>
  /\ UNCHANGED notManager

\* manager.setAttributes({ registry: {} })
ManagerSetAttributes ==
  /\ IF writer
     THEN /\ tRegistry' = [some |-> TRUE, kinds |-> {}]
          /\ mLast' = [ManagerOp("setAttributes") EXCEPT !.writes = 1]
     ELSE /\ mLast' = ManagerOp("setAttributes")
          /\ UNCHANGED tRegistry
  /\ UNCHANGED <<mPlugin, mWritable, tStorage, tApps, tCamera, pageVars, windowVars>>
  /\ UNCHANGED notManager

\* manager.updateAttributes(['registry', kind], { src, name }), the registry
\* being there when the call can write.
ManagerUpdateAttributes ==
  /\ writer => tRegistry.some
  /\ IF writer
     THEN /\ tRegistry' = [tRegistry EXCEPT !.kinds = {"kind"}]
          /\ mLast' = [ManagerOp("updateAttributes") EXCEPT !.writes = 1]
     ELSE /\ mLast' = ManagerOp("updateAttributes")
          /\ UNCHANGED tRegistry
  /\ UNCHANGED <<mPlugin, mWritable, tStorage, tApps, tCamera, pageVars, windowVars>>
  /\ UNCHANGED notManager

\* manager.mergeAttributes({ registry: {} })
ManagerMergeAttributes ==
  /\ IF writer
     THEN /\ tRegistry' = [tRegistry EXCEPT !.some = TRUE]
          /\ mLast' = [ManagerOp("mergeAttributes") EXCEPT
                         !.writes = mergeEmpty(tRegistry.some)]
     ELSE /\ mLast' = ManagerOp("mergeAttributes")
          /\ UNCHANGED tRegistry
  /\ UNCHANGED <<mPlugin, mWritable, tStorage, tApps, tCamera, pageVars, windowVars>>
  /\ UNCHANGED notManager

\* manager.moveCamera(camera), out of freedom mode: the write of the record.
ManagerMoveCamera ==
  /\ IF writer
     THEN /\ tCamera' = TRUE
          /\ mLast' = [ManagerOp("moveCamera") EXCEPT !.writes = 1]
     ELSE /\ mLast' = ManagerOp("moveCamera")
          /\ UNCHANGED tCamera
  /\ UNCHANGED <<mPlugin, mWritable, tRegistry, tStorage, tApps, pageVars, windowVars>>
  /\ UNCHANGED notManager

\* Storage.setState({ key: value }) of the Storage of MainNamespace: a write
\* under a namespace that is not there leaves the tree without it.
ManagerStorageSetState ==
  /\ mLast' = [ManagerOp("setState") EXCEPT !.writes = IF writer THEN 1 ELSE 0]
  /\ UNCHANGED <<mPlugin, mWritable, treeVars, pageVars, windowVars>>
  /\ UNCHANGED notManager

\* Storage.resetState() of the Storage of MainNamespace
ManagerStorageResetState ==
  /\ IF writer
     THEN /\ tStorage' = [some |-> TRUE, ns |-> tStorage.ns \cup {MainNamespace}]
          /\ mLast' = [ManagerOp("resetState") EXCEPT !.writes = 1]
     ELSE /\ mLast' = ManagerOp("resetState")
          /\ UNCHANGED tStorage
  /\ UNCHANGED <<mPlugin, mWritable, tRegistry, tApps, tCamera, pageVars, windowVars>>
  /\ UNCHANGED notManager

\* manager.addPage({ scene, after })
ManagerAddPage ==
  /\ pageCount < MaxPages
  /\ IF mWritable
     THEN /\ pageCount' = pageCount + 1
          /\ mLast' = [ManagerOp("addPage") EXCEPT !.writes = 1]
     ELSE /\ mLast' = ManagerOp("addPage")
          /\ UNCHANGED pageCount
  /\ UNCHANGED <<mPlugin, mWritable, treeVars, pageIndex, windowVars>>
  /\ UNCHANGED notManager

\* manager.removePage(index): the scene at index, or the current one when the
\* index is left out or names no scene; the room keeps one scene at least.
ManagerRemovePage ==
  \E index \in (0..MaxPages) \cup {Omitted}:
    /\ IF mWritable
       THEN LET at == IF index = Omitted \/ index >= pageCount THEN pageIndex ELSE index
                count == IF pageCount > 1 THEN pageCount - 1 ELSE 1
            IN /\ pageCount' = count
               /\ pageIndex' = IF pageIndex > at \/ pageIndex >= count
                               THEN (IF pageIndex > 0 THEN pageIndex - 1 ELSE 0)
                               ELSE pageIndex
               /\ mLast' = [ManagerOp("removePage") EXCEPT !.writes = 1]
       ELSE /\ mLast' = ManagerOp("removePage")
            /\ UNCHANGED pageVars
    /\ UNCHANGED <<mPlugin, mWritable, treeVars, windowVars>>
    /\ UNCHANGED notManager

\* manager.jumpPage(index), index naming a scene
ManagerJumpPage ==
  \E index \in 0..(pageCount - 1):
    /\ IF mWritable
       THEN /\ pageIndex' = index
            /\ mLast' = [ManagerOp("jumpPage") EXCEPT !.writes = 1]
       ELSE /\ mLast' = ManagerOp("jumpPage")
            /\ UNCHANGED pageIndex
    /\ UNCHANGED <<mPlugin, mWritable, treeVars, pageCount, windowVars>>
    /\ UNCHANGED notManager

\* manager.prevPage()
ManagerPrevPage ==
  /\ IF mWritable /\ pageIndex > 0
     THEN /\ pageIndex' = pageIndex - 1
          /\ mLast' = [ManagerOp("prevPage") EXCEPT !.writes = 1]
     ELSE /\ mLast' = ManagerOp("prevPage")
          /\ UNCHANGED pageIndex
  /\ UNCHANGED <<mPlugin, mWritable, treeVars, pageCount, windowVars>>
  /\ UNCHANGED notManager

\* manager.nextPage()
ManagerNextPage ==
  /\ IF mWritable /\ pageIndex + 1 < pageCount
     THEN /\ pageIndex' = pageIndex + 1
          /\ mLast' = [ManagerOp("nextPage") EXCEPT !.writes = 1]
     ELSE /\ mLast' = ManagerOp("nextPage")
          /\ UNCHANGED pageIndex
  /\ UNCHANGED <<mPlugin, mWritable, treeVars, pageCount, windowVars>>
  /\ UNCHANGED notManager

\* Object.keys(this.attributes[kStorage]) throws a TypeError when the storage
\* root is undefined.
addAppThrows(storage) == ~storage.some

\* manager.addApp({ kind, src, name, title, state }), state being given; the
\* box telebox makes has the zIndex z, and manager.now is `at`.
ManagerAddApp ==
  \E src \in BOOLEAN, rnds \in AppIds \X AppIds, z \in Zs, at \in Times:
    /\ IF ~writer
       THEN /\ mLast' = ManagerOp("addApp")
            /\ UNCHANGED <<treeVars, windowVars>>
       ELSE LET regWrites == IF src THEN mergeEmpty(tRegistry.some) + 1 ELSE 0
                registry == IF src THEN [some |-> TRUE, kinds |-> tRegistry.kinds \cup {"kind"}]
                            ELSE tRegistry
            IN IF addAppThrows(tStorage)
               THEN /\ tRegistry' = registry
                    /\ mLast' = [ManagerOp("addApp") EXCEPT !.writes = regWrites,
                                                            !.threw = TRUE]
                    /\ UNCHANGED <<tStorage, tApps, tCamera, windowVars>>
               ELSE \E id \in {nextAppId(tStorage.ns, rnds)}:
                      /\ id \notin tStorage.ns
                      /\ ~boxes[id].held
                      /\ tRegistry' = registry
                      /\ tStorage' = [tStorage EXCEPT !.ns = @ \cup {id}]
                      /\ boxes' = [boxes EXCEPT ![id] = Box(0, 0, z)]
                      /\ created' = Append(created, id)
                      /\ tApps' = [some |-> TRUE,
                                   metas |-> [tApps.metas EXCEPT ![id] = Meta(0, 0, z, at)]]
                      /\ mLast' = [ManagerOp("addApp") EXCEPT
                                     !.writes = regWrites + mergeEmpty(tStorage.some) + 1
                                                  + mergeEmpty(tApps.some) + 1]
                      /\ UNCHANGED <<tCamera, moveTimer, resizeTimer>>
    /\ UNCHANGED <<mPlugin, mWritable, pageVars>>
    /\ UNCHANGED notManager

ManagerNext ==
  \/ ManagerPluginChanged
  \/ ManagerWritableChanged
  \/ ManagerSetAttributes
  \/ ManagerUpdateAttributes
  \/ ManagerMergeAttributes
  \/ ManagerMoveCamera
  \/ ManagerStorageSetState
  \/ ManagerStorageResetState
  \/ ManagerAddPage
  \/ ManagerRemovePage
  \/ ManagerJumpPage
  \/ ManagerPrevPage
  \/ ManagerNextPage
  \/ ManagerAddApp

\* Windows.  The boxes are telebox's; a change made with the silent flag emits
\* no event, and boxes of one zIndex are stacked in the order of their creation.

\* The reaction of an App on attributes.apps[id]: nothing for an entry that is
\* not there; else box.transform(x, y, width, height, true) and
\* box.setZIndex(z, true).  An entry without x and width leaves the geometry.
appReaction(box, meta) ==
  IF ~box.held \/ ~meta.some THEN box
  ELSE IF meta.full THEN Box(meta.x, meta.width, meta.z)
  ELSE [box EXCEPT !.z = meta.z]

\* The events telebox emits when a box goes from `box` to `after`: none with
\* the skipUpdate flag, else one for each of position, size and zIndex that
\* changed.
teleboxEvents(box, after, skipUpdate) ==
  [move |-> ~skipUpdate /\ after.x # box.x,
   resize |-> ~skipUpdate /\ after.width # box.width,
   z |-> ~skipUpdate /\ after.z # box.z]

\* A faulty reaction: it changes the box without the skipUpdate flag.
appReactionEventsLoud(box, meta) == teleboxEvents(box, appReaction(box, meta), FALSE)

\* The events of the reaction of an App: transform and setZIndex are called
\* with skipUpdate true.
appReactionEvents(box, meta) == teleboxEvents(box, appReaction(box, meta), TRUE)

\* refresh() of debounced() calls fn() without arguments: the parameter `box`
\* of the handler is undefined.
refreshArgument == Omitted

\* The position of a merged entry: mergeAttributes writes the given fields of
\* an entry that is there, and puts { position } in place of one that is not.
mergedMeta(meta, field, value) ==
  LET base == IF meta.some THEN meta ELSE [NoMeta EXCEPT !.some = TRUE]
  IN CASE field = "x" -> [base EXCEPT !.x = value]
       [] field = "width" -> [base EXCEPT !.width = value]
       [] OTHER -> [base EXCEPT !.z = value]

\* The ids of `seq` without id
Without(seq, id) == SelectSeq(seq, LAMBDA e: e # id)

\* The state after two addApp() calls in a room with a storage root: the
\* second box is above the first, manager.now did not go back.
WindowsInit ==
  /\ mPlugin = TRUE
  /\ mWritable = TRUE
  /\ tRegistry = [some |-> FALSE, kinds |-> {}]
  /\ tStorage = [some |-> TRUE, ns |-> AppIds]
  /\ tCamera = FALSE
  /\ pageIndex = 0
  /\ pageCount = 1
  /\ created \in {<<1, 2>>, <<2, 1>>}
  /\ boxes = [id \in AppIds |-> Box(0, 0, IF created[1] = id THEN 0 ELSE 1)]
  /\ \E first \in Times, second \in Times:
       /\ first <= second
       /\ tApps = [some |-> TRUE,
                   metas |-> [id \in AppIds |->
                                Meta(0, 0, boxes[id].z,
                                     IF created[1] = id THEN first ELSE second)]]
  /\ moveTimer = FALSE
  /\ resizeTimer = FALSE
  /\ mLast = NoOp

\* The user drags the box of id: telebox emits 'intrinsic_move' and the
\* debounced handler schedules itself unless it is scheduled.
BoxMove ==
  \E id \in AppIds, x \in {0, 1}:
    /\ boxes[id].held
    /\ x # boxes[id].x
    /\ boxes' = [boxes EXCEPT ![id].x = x]
    /\ moveTimer' = TRUE
    /\ mLast' = NoOp
    /\ UNCHANGED <<mPlugin, mWritable, treeVars, pageVars, created, resizeTimer>>
    /\ UNCHANGED notManager

\* The timer of the 'intrinsic_move' handler fires: box.intrinsicX of an
\* undefined box throws, which refresh() catches and logs.
MoveRefresh ==
  /\ moveTimer
  /\ moveTimer' = FALSE
  /\ \E box \in {refreshArgument}:
       IF box = Omitted
       THEN /\ mLast' = [ManagerOp("moveRefresh") EXCEPT !.caught = TRUE]
            /\ UNCHANGED tApps
       ELSE /\ mLast' = [ManagerOp("moveRefresh") EXCEPT !.writes = IF writer THEN 1 ELSE 0]
            /\ tApps' = IF writer
                        THEN [some |-> TRUE,
                              metas |-> [tApps.metas EXCEPT ![box] =
                                           mergedMeta(@, "x", boxes[box].x)]]
                        ELSE tApps
  /\ UNCHANGED <<mPlugin, mWritable, tRegistry, tStorage, tCamera, pageVars,
                 boxes, created, resizeTimer>>
  /\ UNCHANGED notManager

\* The user resizes the box of id: telebox emits 'intrinsic_resize'.
BoxResize ==
  \E id \in AppIds, width \in {0, 1}:
    /\ boxes[id].held
    /\ width # boxes[id].width
    /\ boxes' = [boxes EXCEPT ![id].width = width]
    /\ resizeTimer' = TRUE
    /\ mLast' = NoOp
    /\ UNCHANGED <<mPlugin, mWritable, treeVars, pageVars, created, moveTimer>>
    /\ UNCHANGED notManager

\* The timer of the 'intrinsic_resize' handler fires.
ResizeRefresh ==
  /\ resizeTimer
  /\ resizeTimer' = FALSE
  /\ \E box \in {refreshArgument}:
       IF box = Omitted
       THEN /\ mLast' = [ManagerOp("resizeRefresh") EXCEPT !.caught = TRUE]
            /\ UNCHANGED tApps
       ELSE /\ mLast' = [ManagerOp("resizeRefresh") EXCEPT !.writes = IF writer THEN 1 ELSE 0]
            /\ tApps' = IF writer
                        THEN [some |-> TRUE,
                              metas |-> [tApps.metas EXCEPT ![box] =
                                           mergedMeta(@, "width", boxes[box].width)]]
                        ELSE tApps
  /\ UNCHANGED <<mPlugin, mWritable, tRegistry, tStorage, tCamera, pageVars,
                 boxes, created, moveTimer>>
  /\ UNCHANGED notManager

\* The stacking of the box of id changes: telebox emits 'z_index' and the
\* handler merges position.z at once.  The reaction of the App may run for
\* the entry that changed inside (fires).
BoxZIndex ==
  \E id \in AppIds, z \in Zs, fires \in BOOLEAN:
    /\ boxes[id].held
    /\ z # boxes[id].z
    /\ IF writer
       THEN \E meta \in {mergedMeta(tApps.metas[id], "z", z)}:
            \E ev \in {appReactionEvents([boxes[id] EXCEPT !.z = z], meta)}:
              /\ tApps' = [some |-> TRUE, metas |-> [tApps.metas EXCEPT ![id] = meta]]
              /\ boxes' = [boxes EXCEPT ![id] =
                             IF fires THEN appReaction([@ EXCEPT !.z = z], meta)
                             ELSE [@ EXCEPT !.z = z]]
              /\ moveTimer' = (moveTimer \/ (fires /\ ev.move))
              /\ resizeTimer' = (resizeTimer \/ (fires /\ ev.resize))
              /\ mLast' = [ManagerOp("zIndex") EXCEPT !.writes = 1]
       ELSE /\ boxes' = [boxes EXCEPT ![id].z = z]
            /\ mLast' = ManagerOp("zIndex")
            /\ UNCHANGED <<tApps, moveTimer, resizeTimer>>
    /\ UNCHANGED <<mPlugin, mWritable, tRegistry, tStorage, tCamera, pageVars, created>>
    /\ UNCHANGED notManager

\* The user closes the box of id: telebox destroys it and emits 'removed';
\* the handler merges { apps: { [id]: undefined } }, where isArray(a) throws
\* for an entry that is not there.
BoxClose ==
  \E id \in AppIds:
    /\ boxes[id].held
    /\ boxes' = [boxes EXCEPT ![id] = NoBox]
    /\ created' = Without(created, id)
    /\ IF ~writer
       THEN /\ mLast' = ManagerOp("close")
            /\ UNCHANGED tApps
       ELSE IF tApps.some /\ ~tApps.metas[id].some
       THEN /\ mLast' = [ManagerOp("close") EXCEPT !.threw = TRUE]
            /\ UNCHANGED tApps
       ELSE /\ mLast' = [ManagerOp("close") EXCEPT !.writes = 1]
            /\ tApps' = [some |-> TRUE, metas |-> [tApps.metas EXCEPT ![id] = NoMeta]]
    /\ UNCHANGED <<mPlugin, mWritable, tRegistry, tStorage, tCamera, pageVars,
                   moveTimer, resizeTimer>>
    /\ UNCHANGED notManager

\* Another client that made an App of the same id writes its entry
\* (updateAttributes(['apps', id], { title, position, createdAt })); the write
\* arrives and the reaction of the App runs.
RemoteMeta ==
  \E id \in AppIds, z \in Zs, at \in Times:
    /\ tApps.metas[id] # Meta(0, 0, z, at)
    /\ tApps' = [some |-> TRUE, metas |-> [tApps.metas EXCEPT ![id] = Meta(0, 0, z, at)]]
    /\ boxes' = [boxes EXCEPT ![id] = appReaction(@, Meta(0, 0, z, at))]
    /\ \E ev \in {appReactionEvents(boxes[id], Meta(0, 0, z, at))}:
         /\ moveTimer' = (moveTimer \/ ev.move)
         /\ resizeTimer' = (resizeTimer \/ ev.resize)
         \* a 'z_index' event would merge position.z, which the entry has
         /\ mLast' = [ManagerOp("remoteMeta") EXCEPT
                        !.writes = IF ev.z /\ writer /\ z # Meta(0, 0, z, at).z THEN 1 ELSE 0,
                        !.scheduled = (ev.move \/ ev.resize),
                        !.changed = (appReaction(boxes[id], Meta(0, 0, z, at)) # boxes[id])]
    /\ UNCHANGED <<mPlugin, mWritable, tRegistry, tStorage, tCamera, pageVars, created>>
    /\ UNCHANGED notManager

\* Another client deletes attributes.apps[id]; the deletion arrives: the
\* reaction of the App runs with an undefined entry, and the reaction of the
\* manager on attributes.apps runs, which does nothing.
RemoteDelete ==
  \E id \in AppIds:
    /\ tApps.metas[id].some
    /\ tApps' = [tApps EXCEPT !.metas[id] = NoMeta]
    /\ boxes' = [boxes EXCEPT ![id] = appReaction(@, NoMeta)]
    /\ mLast' = ManagerOp("remoteDelete")
    /\ UNCHANGED <<mPlugin, mWritable, tRegistry, tStorage, tCamera, pageVars,
                   created, moveTimer, resizeTimer>>
    /\ UNCHANGED notManager

WindowsNext ==
  \/ BoxMove
  \/ MoveRefresh
  \/ BoxResize
  \/ ResizeRefresh
  \/ BoxZIndex
  \/ BoxClose
  \/ RemoteMeta
  \/ RemoteDelete

----------------------------------------------------------------------------
\* The disposal of a WindowManager with windows: manager.dispose is a store
\* that holds the debounced syncCameraToRemote and syncMainView (added where
\* they are made), the listeners of the main view, the reactions, and
\* telebox.destroy(); the debounced handlers of 'intrinsic_move' and
\* 'intrinsic_resize' are given to telebox.events.on and to nothing else.

SessIdle ==
  /\ sessDisposed = 0
  /\ camTimer = FALSE
  /\ sceneTimer = FALSE

\* The user drags or resizes a box of a manager in use.
SessionBoxMove == sessDisposed = 0 /\ BoxMove /\ UNCHANGED sessVars
SessionBoxResize == sessDisposed = 0 /\ BoxResize /\ UNCHANGED sessVars

\* The timers of the window handlers fire, whether or not the manager is disposed.
SessionMoveRefresh == MoveRefresh /\ UNCHANGED sessVars
SessionResizeRefresh == ResizeRefresh /\ UNCHANGED sessVars

\* 'onCameraUpdatedByDevice' of the main view: syncCameraToRemote() is called.
SessionCameraUpdatedByDevice ==
  /\ sessDisposed = 0
  /\ camTimer' = TRUE
  /\ mLast' = NoOp
  /\ UNCHANGED <<sessDisposed, sceneTimer>>
  /\ UNCHANGED <<mPlugin, mWritable, treeVars, pageVars, boxes, created, moveTimer, resizeTimer>>
  /\ UNCHANGED notSess

\* The reaction on attributes.camera runs for a record that carries this
\* client's id or its complement: syncMainView() is called.
SessionCameraReaction ==
  /\ sessDisposed = 0
  /\ sceneTimer' = TRUE
  /\ mLast' = NoOp
  /\ UNCHANGED <<sessDisposed, camTimer>>
  /\ UNCHANGED <<mPlugin, mWritable, treeVars, pageVars, boxes, created, moveTimer, resizeTimer>>
  /\ UNCHANGED notSess

\* The timer of syncCameraToRemote fires: setAttributes({ camera }).
SessionSyncCameraToRemote ==
  /\ camTimer
  /\ camTimer' = FALSE
  /\ tCamera' = (tCamera \/ writer)
  /\ mLast' = [ManagerOp("syncCameraToRemote") EXCEPT !.writes = IF writer THEN 1 ELSE 0]
  /\ UNCHANGED <<sessDisposed, sceneTimer>>
  /\ UNCHANGED <<mPlugin, mWritable, tRegistry, tStorage, tApps, pageVars, boxes, created,
                 moveTimer, resizeTimer>>
  /\ UNCHANGED notSess

\* The timer of syncMainView fires: room.syncMainView(mainView) on a writable room.
SessionSyncMainView ==
  /\ sceneTimer
  /\ sceneTimer' = FALSE
  /\ mLast' = ManagerOp("syncMainView")
  /\ UNCHANGED <<sessDisposed, camTimer>>
  /\ UNCHANGED <<mPlugin, mWritable, treeVars, pageVars, boxes, created, moveTimer, resizeTimer>>
  /\ UNCHANGED notSess

\* The room becomes writable or stops being so.
SessionWritableChanged ==
  /\ mWritable' = ~mWritable
  /\ mLast' = NoOp
  /\ UNCHANGED sessVars
  /\ UNCHANGED <<mPlugin, treeVars, pageVars, boxes, created, moveTimer, resizeTimer>>
  /\ UNCHANGED notSess

\* The store disposes a debounced function it holds: update.dispose() clears
\* its timeout.  t is "the function is scheduled".
storeDisposes(t) == FALSE

\* manager.dispose(): the first call runs the disposers of the store and
\* empties it (telebox.destroy() destroys the boxes); a later call finds the
\* store empty.
SessionDispose ==
  /\ sessDisposed < MaxDispose
  /\ sessDisposed' = sessDisposed + 1
  /\ IF sessDisposed = 0
     THEN /\ camTimer' = storeDisposes(camTimer)
          /\ sceneTimer' = storeDisposes(sceneTimer)
          /\ boxes' = [id \in AppIds |-> NoBox]
          /\ created' = <<>>
          /\ mLast' = [ManagerOp("dispose") EXCEPT !.changed = TRUE]
     ELSE /\ mLast' = ManagerOp("dispose")
          /\ UNCHANGED <<camTimer, sceneTimer, boxes, created>>
  /\ UNCHANGED <<mPlugin, mWritable, treeVars, pageVars, moveTimer, resizeTimer>>
  /\ UNCHANGED notSess

SessionNext ==
  \/ SessionBoxMove
  \/ SessionBoxResize
  \/ SessionMoveRefresh
  \/ SessionResizeRefresh
  \/ SessionCameraUpdatedByDevice
  \/ SessionCameraReaction
  \/ SessionSyncCameraToRemote
  \/ SessionSyncMainView
  \/ SessionWritableChanged
  \/ SessionDispose

----------------------------------------------------------------------------
\* An App and its AppContext.  The context makes its main storage as a field
\* (`storage = new Storage(...)`) and gives the storages of connectStorage()
\* to its own store (`this.dispose.add(new Storage(...))`); the App gives the
\* context to its store.

StorageIds == {"main", "a", "b"}
ConnectedIds == {"a", "b"}
\* The subscribers of a Storage are counted up to MaxSubs.
MaxSubs == 2
\* Calls of setup() are counted up to MaxSetups.
MaxSetups == 3
\* The loaders registered for the kind, one after the other.
MaxDefs == 5

NoStorage == [made |-> FALSE, subs |-> 0, disposed |-> FALSE, dc |-> 0]
NoChange == [op |-> "none", changed |-> FALSE, ctxTold |-> {}, stTold |-> {}, shown |-> TRUE]

\* The state after new App(...): the context has its main storage.
AppIdle ==
  /\ appDisposed = 0
  /\ ctxStore = {}
  /\ stor = [s \in StorageIds |-> IF s = "main" THEN [NoStorage EXCEPT !.made = TRUE]
                                    ELSE NoStorage]
  /\ ctxSubs = {}
  /\ stSubs = {}
  /\ appCan = TRUE
  /\ appTree = 0
  /\ appShadow = 0
  /\ aLast = NoChange
  /\ regDef = 0
  /\ appSub = TRUE
  /\ loads = {}
  /\ setups = 0
  /\ setupErrors = 0

\* Storage.dispose() of one storage: the first call emits 'disconnected' and
\* clears the subscribers, a later one finds the store of the Storage empty.
storageDispose(st) ==
  IF st.disposed THEN st
  ELSE [st EXCEPT !.disposed = TRUE, !.subs = 0, !.dc = @ + 1]

\* context.connectStorage(namespace, defaultState)
AppConnectStorage ==
  \E s \in ConnectedIds:
    /\ appDisposed = 0
    /\ ~stor[s].made
    /\ stor' = [stor EXCEPT ![s].made = TRUE]
    /\ ctxStore' = ctxStore \cup {s}
    /\ UNCHANGED <<appDisposed, appStateVars, appSetupVars>>
    /\ UNCHANGED notApp

\* storage.on(event, callback) on a storage of the context that is in use.
AppStorageOn ==
  \E s \in StorageIds:
    /\ stor[s].made /\ ~stor[s].disposed
    /\ stor[s].subs < MaxSubs
    /\ stor' = [stor EXCEPT ![s].subs = @ + 1]
    /\ UNCHANGED <<appDisposed, ctxStore, appStateVars, appSetupVars>>
    /\ UNCHANGED notApp

\* The app calls storage.dispose() itself: the 'disconnected' subscriber of
\* connectStorage removes the storage from the store of the context.
AppStorageDispose ==
  \E s \in StorageIds:
    /\ stor[s].made
    /\ stor' = [stor EXCEPT ![s] = storageDispose(@)]
    /\ ctxStore' = ctxStore \ {s}
    /\ UNCHANGED <<appDisposed, appStateVars, appSetupVars>>
    /\ UNCHANGED notApp

\* App.dispose(): the store of the App disposes the context, whose store
\* disposes the storages it holds; a later call finds the store empty.
AppDispose ==
  /\ appDisposed < MaxDispose
  /\ appDisposed' = appDisposed + 1
  /\ stor' = [s \in StorageIds |-> IF s \in ctxStore THEN storageDispose(stor[s]) ELSE stor[s]]
  /\ ctxStore' = {}
  /\ UNCHANGED <<appStateVars, appSetupVars>>
  /\ UNCHANGED notApp

AppDisposeNext == AppConnectStorage \/ AppStorageOn \/ AppStorageDispose \/ AppDispose

\* The synced state of an App: one key, `value`, of the main storage, whose
\* namespace exists and is listened to.

CtxCallbacks == {1, 2}
AppValues == {1, 2}

\* The callbacks of context.on('stateChanged', ...) that a change of the
\* storage reaches: context.on is events.on of the context's own Emittery, on
\* which only App.close() emits ('close'); nothing passes the events of the
\* storage on to it.
contextTold(subs) == {}

\* The subscribers of the storage that its emit('stateChanged', diff) calls.
storageTold(subs) == subs

\* The handler of the storage runs for the value v written to the tree.
AppObserved(op, v) ==
  /\ appTree' = v
  /\ appShadow' = v
  /\ aLast' = [op |-> op, changed |-> (v # appShadow),
               ctxTold |-> IF v # appShadow THEN contextTold(ctxSubs) ELSE {},
               stTold |-> IF v # appShadow THEN storageTold(stSubs) ELSE {},
               shown |-> TRUE]

\* context.on('stateChanged', callback)
ContextOn ==
  \E cb \in CtxCallbacks \ ctxSubs:
    /\ ctxSubs' = ctxSubs \cup {cb}
    /\ aLast' = NoChange
    /\ UNCHANGED <<stSubs, appCan, appTree, appShadow, appDisposeVars, appSetupVars>>
    /\ UNCHANGED notApp

\* context.storage.on('stateChanged', callback)
ContextStorageOn ==
  \E cb \in CtxCallbacks \ stSubs:
    /\ stSubs' = stSubs \cup {cb}
    /\ aLast' = NoChange
    /\ UNCHANGED <<ctxSubs, appCan, appTree, appShadow, appDisposeVars, appSetupVars>>
    /\ UNCHANGED notApp

\* context.setState({ value: v }): storage.setState writes if it can operate,
\* and the handler of the storage runs for the write.
ContextSetState ==
  \E v \in AppValues:
    /\ IF appCan
       THEN AppObserved("setState", v)
       ELSE /\ aLast' = [NoChange EXCEPT !.op = "setState"]
            /\ UNCHANGED <<appTree, appShadow>>
    /\ UNCHANGED <<ctxSubs, stSubs, appCan, appDisposeVars, appSetupVars>>
    /\ UNCHANGED notApp

\* The App of another client calls context.setState({ value: v }).
RemoteSetState ==
  \E v \in AppValues:
    /\ AppObserved("remote", v)
    /\ UNCHANGED <<ctxSubs, stSubs, appCan, appDisposeVars, appSetupVars>>
    /\ UNCHANGED notApp

\* The room becomes writable or stops being so.
AppWritableChanged ==
  /\ appCan' = ~appCan
  /\ aLast' = NoChange
  /\ UNCHANGED <<ctxSubs, stSubs, appTree, appShadow, appDisposeVars, appSetupVars>>
  /\ UNCHANGED notApp

AppStateNext ==
  ContextOn \/ ContextStorageOn \/ ContextSetState \/ RemoteSetState \/ AppWritableChanged

\* The setup of an App whose kind is registered after (or while) the App is
\* made: `definition` is flatten(registry.$, map => map.get(kind)), and the
\* subscriber awaits def(), calls setup() and, in `finally`, has stop() called.

\* The subscriber of `definition` is called with the loader def: `if (def)`
\* starts `await def()` whatever loads are under way.
subscriberStarts(pending, def) == IF def # 0 THEN pending \cup {def} ELSE pending

\* register(def) for the kind of the App: registry.set(kind, loader) gives
\* `definition` a new value, which calls the subscriber if it is subscribed.
AppRegister ==
  /\ regDef < MaxDefs
  /\ regDef' = regDef + 1
  /\ loads' = IF appSub THEN subscriberStarts(loads, regDef + 1) ELSE loads
  /\ UNCHANGED <<appSub, setups, setupErrors, appDisposeVars, appStateVars>>
  /\ UNCHANGED notApp

\* The promise of a loader resolves: app.setup(context) runs, and `finally`
\* has the subscription stopped.
AppLoadResolve ==
  \E def \in loads:
    /\ loads' = loads \ {def}
    /\ setups' = IF setups < MaxSetups THEN setups + 1 ELSE setups
    /\ appSub' = FALSE
    /\ UNCHANGED <<regDef, setupErrors, appDisposeVars, appStateVars>>
    /\ UNCHANGED notApp

\* The promise of a loader rejects (a script that cannot be fetched): `catch`
\* emits 'appSetupError', and `finally` has the subscription stopped.
AppLoadReject ==
  \E def \in loads:
    /\ loads' = loads \ {def}
    /\ setupErrors' = IF setupErrors < MaxSetups THEN setupErrors + 1 ELSE setupErrors
    /\ appSub' = FALSE
    /\ UNCHANGED <<regDef, setups, appDisposeVars, appStateVars>>
    /\ UNCHANGED notApp

AppSetupNext == AppRegister \/ AppLoadResolve \/ AppLoadReject

\* mergeAttributes(w, a, b, p) of utils.ts, on attribute values.  A value is
\* [t, c, kids]: t is "undefined", "null", "num", "str", "arr" or "obj"; c tells
\* numbers, strings (not empty) and arrays apart; kids are the entries
\* <<key, value>> of a plain object in the order of Object.keys.

\* mergeAttributes is called at most MaxMerges times.
MaxMerges == 1

JUndefined == [t |-> "undefined", c |-> 0, kids |-> <<>>]
JNull == [t |-> "null", c |-> 0, kids |-> <<>>]
JNum(n) == [t |-> "num", c |-> n, kids |-> <<>>]
JStr(n) == [t |-> "str", c |-> n, kids |-> <<>>]
JArr(n) == [t |-> "arr", c |-> n, kids |-> <<>>]
JObj(kids) == [t |-> "obj", c |-> 0, kids |-> kids]
\* A key that the object does not have (used to build objects only).
JAbsent == [t |-> "absent", c |-> 0, kids |-> <<>>]
MkObj(k1, v1, k2, v2) ==
  JObj((IF v1 = JAbsent THEN <<>> ELSE <<(<<k1, v1>>)>>)
       \o (IF v2 = JAbsent THEN <<>> ELSE <<(<<k2, v2>>)>>))

\* typeof v
typeOf(v) ==
  CASE v.t = "undefined" -> "undefined"
    [] v.t = "num" -> "number"
    [] v.t = "str" -> "string"
    [] OTHER -> "object"

\* a[k] of an object a; undefined for a key it does not have
Get(a, k) ==
  IF a.t = "obj" /\ \E i \in 1..Len(a.kids): a.kids[i][1] = k
  THEN a.kids[CHOOSE i \in 1..Len(a.kids): a.kids[i][1] = k][2]
  ELSE JUndefined

\* The outcome of a merge: the updateAttributes(p, v) calls in their order, and
\* whether an exception ended it.
NoWrites == [writes |-> <<>>, threw |-> FALSE]
Wrote(p, v) == [writes |-> <<[p |-> p, v |-> v]>>, threw |-> FALSE]
Threw == [writes |-> <<>>, threw |-> TRUE]

RECURSIVE mergeAttributes(_, _, _)
RECURSIVE mergeKeys(_, _, _, _)
\* if (typeof a !== typeof b || (typeof a !== 'object' && a !== b)
\*     || Array.isArray(b) || isArray(a)) w.updateAttributes(p, b)
\* else for (let k of Object.keys(b)) mergeAttributes(w, a[k], b[k], [...p, k])
\* isArray(a) reads a.__proxy, a TypeError for undefined and null; so is
\* Object.keys(null); two equal strings that are not empty recurse on their
\* first character without end, a RangeError.
mergeAttributes(a, b, p) ==
  IF typeOf(a) # typeOf(b) \/ (typeOf(a) # "object" /\ a # b) \/ b.t = "arr"
  THEN Wrote(p, b)
  ELSE IF a.t \in {"undefined", "null"} THEN Threw
  ELSE IF a.t = "arr" THEN Wrote(p, b)
  ELSE IF b.t = "null" THEN Threw
  ELSE IF b.t = "str" THEN Threw
  ELSE mergeKeys(a, b.kids, p, NoWrites)

mergeKeys(a, kids, p, acc) ==
  IF kids = <<>> THEN acc
  ELSE LET one == mergeAttributes(Get(a, Head(kids)[1]), Head(kids)[2],
                                  Append(p, Head(kids)[1]))
           all == [writes |-> acc.writes \o one.writes, threw |-> one.threw]
       IN IF one.threw THEN all ELSE mergeKeys(a, Tail(kids), p, all)

\* updateAttributes(p, v) on the value a
RECURSIVE Put(_, _, _)
Put(a, p, v) ==
  IF p = <<>> THEN v
  ELSE LET k == Head(p)
           old == IF a.t = "obj" THEN a.kids ELSE <<>>
           sub == Put(Get(a, k), Tail(p), v)
       IN JObj(IF \E i \in 1..Len(old): old[i][1] = k
               THEN [i \in 1..Len(old) |-> IF old[i][1] = k THEN <<k, sub>> ELSE old[i]]
               ELSE Append(old, <<k, sub>>))

RECURSIVE PutAll(_, _)
PutAll(a, writes) ==
  IF writes = <<>> THEN a ELSE PutAll(Put(a, Head(writes).p, Head(writes).v), Tail(writes))

\* The values of the attributes, and the values of a partial: an entry with a
\* position of two fields and a title.
LeafA == {JNull, JNum(1), JStr(1), JArr(1)}
LeafB == {JUndefined, JNull, JNum(1), JNum(2), JStr(1), JStr(2), JArr(1)}
TreesOver(leaves) ==
  {MkObj("position", pos, "title", title):
     pos \in leaves \cup {JAbsent}
         \cup {MkObj("x", x, "z", z): x \in leaves \cup {JAbsent}, z \in leaves \cup {JAbsent}},
     title \in leaves \cup {JAbsent}}

NoMerge == [op |-> "none", a |-> JUndefined, b |-> JUndefined, writes |-> <<>>, threw |-> FALSE]

MergeIdle ==
  /\ mgA = JObj(<<>>)
  /\ mgCount = 0
  /\ mgLast = NoMerge

MergeInit ==
  /\ mgA \in TreesOver(LeafA)
  /\ mgCount = 0
  /\ mgLast = NoMerge

\* manager.mergeAttributes(ref), a writer being there:
\* let a = w.attributes; mergeAttributes(w, a, ref)
MergeAttributes ==
  /\ mgCount < MaxMerges
  /\ \E b \in TreesOver(LeafB):
    \E res \in {mergeAttributes(mgA, b, <<>>)}:
      /\ mgCount' = mgCount + 1
      /\ mgA' = PutAll(mgA, res.writes)
      /\ mgLast' = [op |-> "mergeAttributes", a |-> mgA, b |-> b,
                    writes |-> res.writes, threw |-> res.threw]
      /\ UNCHANGED notMerge

MergeNext == MergeAttributes

\* useInvisiblePlugin(kind).initialize(room) for one room: `map` holds the
\* plugin instance of the room, plugin$ is map.get(room), and createPlugin is
\* called by getPlugin itself, by the reaction of plugin$ and by the listener
\* of 'onEnableWriteNowChanged' (the last two for a token of an admin or a
\* writer only).  The room's server creates and destroys the instance:
\* Plugin.onCreate and Plugin.onDestroy tell the client.

\* The room has at most MaxInstances plugin instances, one after the other.
MaxInstances == 2
\* At most MaxRequests createInvisiblePlugin promises are pending at once.
MaxRequests == 2

Phases == {"connected", "reconnecting", "disconnected"}
\* The stand-in `Empty`, and null: values of the derived plugin$.
EmptyPlugin == -1
NullPlugin == 0

\* isRoomWritable(room): isRoom(room) && room.isWritable && phase === Connected
isRoomWritable(writable, phase) == writable /\ phase = "connected"

\* createPlugin(): if (!map.has(room) && isRoomWritable(room))
\*   room.createInvisiblePlugin(Plugin, {}); TRUE when the call is made.
createPlugin(inMap, writable, phase) == ~inMap /\ isRoomWritable(writable, phase)

\* derive(plugin$, plugin => plugin || Empty)
derivedPlugin(plugin) == IF plugin # 0 THEN plugin ELSE EmptyPlugin

NoEvent == [op |-> "none", asked |-> FALSE, had |-> FALSE, could |-> FALSE]
Event(op, asked) ==
  [op |-> op, asked |-> asked, had |-> pMap # 0,
   could |-> isRoomWritable(pIsWritable, pPhase)]

PlugIdle ==
  /\ pToken = FALSE
  /\ pIsWritable = FALSE
  /\ pPhase = "connected"
  /\ pMap = 0
  /\ pGen = 0
  /\ pRequests = 0
  /\ pDisposed = FALSE
  /\ pLast = NoEvent

\* The state after getPlugin(room) returned: the map has the plugin the room
\* had, and createPlugin() was called once.
PlugInit ==
  /\ pToken \in BOOLEAN
  /\ pIsWritable \in BOOLEAN
  /\ pPhase = "connected"
  /\ pMap \in {0, 1}
  /\ pGen = pMap
  /\ pRequests = IF createPlugin(pMap # 0, pIsWritable, pPhase) THEN 1 ELSE 0
  /\ pDisposed = FALSE
  /\ pLast = [op |-> "getPlugin", asked |-> pRequests = 1, had |-> pMap # 0,
              could |-> isRoomWritable(pIsWritable, pPhase)]

\* The reaction of plugin$ and the listener of 'onEnableWriteNowChanged' are
\* there for a writer's token, until dispose().
Listening == pToken /\ ~pDisposed

\* Plugin.onCreate(plugin): an instance was created for the room, by a request
\* of this client (mine) or of another one; map.set(displayer, plugin), and the
\* reaction of plugin$ calls createPlugin, which finds the plugin in the map.
PlugOnCreate ==
  \E mine \in BOOLEAN:
    /\ pGen < MaxInstances
    /\ mine => pRequests > 0
    /\ ~mine => pMap = 0
    /\ pGen' = pGen + 1
    /\ pMap' = IF pDisposed THEN pMap ELSE pGen + 1
    /\ \E ask \in {Listening /\ createPlugin(TRUE, pIsWritable, pPhase)}:
         /\ ask => pRequests < MaxRequests
         /\ pRequests' = pRequests - (IF mine THEN 1 ELSE 0) + (IF ask THEN 1 ELSE 0)
         /\ pLast' = Event("onCreate", ask)
    /\ UNCHANGED <<pToken, pIsWritable, pPhase, pDisposed>>
    /\ UNCHANGED notPlug

\* The promise of createInvisiblePlugin rejects: .catch(console.warn)
PlugRequestRejected ==
  /\ pRequests > 0
  /\ pRequests' = pRequests - 1
  /\ pLast' = Event("rejected", FALSE)
  /\ UNCHANGED <<pToken, pIsWritable, pPhase, pMap, pGen, pDisposed>>
  /\ UNCHANGED notPlug

\* Plugin.onDestroy(plugin): map.delete(displayer), and the reaction of plugin$
\* calls createPlugin.
PlugOnDestroy ==
  /\ pMap # 0
  /\ ~pDisposed
  /\ pMap' = 0
  /\ \E ask \in {Listening /\ createPlugin(FALSE, pIsWritable, pPhase)}:
       /\ ask => pRequests < MaxRequests
       /\ pRequests' = pRequests + (IF ask THEN 1 ELSE 0)
       /\ pLast' = Event("onDestroy", ask)
  /\ UNCHANGED <<pToken, pIsWritable, pPhase, pGen, pDisposed>>
  /\ UNCHANGED notPlug

\* room.isWritable changes: 'onEnableWriteNowChanged' calls createPlugin.
PlugEnableWriteNowChanged ==
  /\ pPhase # "disconnected"
  /\ pIsWritable' = ~pIsWritable
  /\ \E ask \in {Listening /\ createPlugin(pMap # 0, ~pIsWritable, pPhase)}:
       /\ ask => pRequests < MaxRequests
       /\ pRequests' = pRequests + (IF ask THEN 1 ELSE 0)
       /\ pLast' = Event("onEnableWriteNowChanged", ask)
  /\ UNCHANGED <<pToken, pPhase, pMap, pGen, pDisposed>>
  /\ UNCHANGED notPlug

\* room.phase changes: 'onPhaseChanged' calls dispose() for Disconnected, which
\* ends the listeners and empties the map.
PlugPhaseChanged ==
  \E phase \in Phases:
    /\ pPhase # "disconnected"
    /\ phase # pPhase
    /\ pPhase' = phase
    /\ pDisposed' = (pDisposed \/ phase = "disconnected")
    /\ pMap' = IF phase = "disconnected" THEN 0 ELSE pMap
    /\ pLast' = Event("onPhaseChanged", FALSE)
    /\ UNCHANGED <<pToken, pIsWritable, pGen, pRequests>>
    /\ UNCHANGED notPlug

PlugNext ==
  \/ PlugOnCreate
  \/ PlugRequestRejected
  \/ PlugOnDestroy
  \/ PlugEnableWriteNowChanged
  \/ PlugPhaseChanged

\* No WindowManager is constructed.
ManagerIdle ==
  /\ mPlugin = FALSE
  /\ mWritable = FALSE
  /\ tRegistry = [some |-> FALSE, kinds |-> {}]
  /\ tStorage = [some |-> FALSE, ns |-> {}]
  /\ tApps = [some |-> FALSE, metas |-> [id \in AppIds |-> NoMeta]]
  /\ tCamera = FALSE
  /\ pageIndex = 0
  /\ pageCount = 1
  /\ boxes = [id \in AppIds |-> NoBox]
  /\ created = <<>>
  /\ moveTimer = FALSE
  /\ resizeTimer = FALSE
  /\ mLast = NoOp

----------------------------------------------------------------------------
vars == <<refineVars, debounceVars, storageVars, cameraVars, managerVars, lifeVars>>

\* The Storage of the engine specifications: never constructed.
StorageIdle ==
  /\ sPlugin = FALSE
  /\ sWritable = FALSE
  /\ nsPresent = FALSE
  /\ nsTree = NoState
  /\ sStore = {}
  /\ sReaction = FALSE
  /\ sListening = FALSE
  /\ scSubs = {}
  /\ dcSubs = {}
  /\ nextRef = NumObjs + 1
  /\ disposeCalls = 0
  /\ dcCount = [cb \in Callbacks |-> 0]
  /\ dcAtFirst = {}
  /\ sLast = NoBatch

----------------------------------------------------------------------------
\* The listeners that follow plugin$: those of one Storage (app-context.ts
\* 241-273) and those of manager.reaction() (part_002 420-426).

MaxEmits == 3
MaxNsObjs == 3
Regs == {1, 2}
\* The keys Math.random().toString(36).slice(2) can give.
RegKeys == {"r1", "r2"}

\* A faulty set(): the disposer that was under the key is left alone.
rebindKeepsPrevious(live, key, l) == [live EXCEPT ![key] = @ \cup {l}]

\* disposeMap.set(key, disposer): the disposer that was under the key is
\* disposed, and the new one takes its place.
rebind(live, key, l) == [live EXCEPT ![key] = {l}]

\* The subscribers of manager.reaction() run in the order they subscribed:
\* this.disposeMap.set(key, reaction(getter, callback, options))
RECURSIVE rebindAll(_, _, _, _)
rebindAll(live, subs, i, epoch) ==
  IF i > Len(subs) THEN live
  ELSE rebindAll(rebind(live, subs[i].key, [reg |-> subs[i].reg, epoch |-> epoch]),
                 subs, i + 1, epoch)

\* How many times the callback of registration r ran while its listener was
\* mounted: once with fireImmediately, else not.
firedAtMount(subs) ==
  [r \in Regs |->
     IF \E i \in 1..Len(subs): subs[i].reg = r /\ subs[i].fire THEN 1 ELSE 0]

RegSubscribed(r) == \E i \in 1..Len(bSubs): bSubs[i].reg = r
keyOf(r) == (CHOOSE s \in {bSubs[i]: i \in 1..Len(bSubs)}: s.reg = r).key

\* listenNamespace(): a new reaction on read, fired at once; with a namespace it
\* calls listenNamespaceProps(raw).  The function it returns is not kept.
listenNamespace(reactions, epoch, plugin) ==
  reactions \cup {[epoch |-> epoch, plugin |-> plugin]}

\* stopListenProps(); stopListenProps = listenNamespaceProps(raw), in the
\* reaction of one listenNamespace: the closure's own handler is replaced.
listenNamespaceProps(handlers, epoch, obj) ==
  {h \in handlers: h.epoch # epoch} \cup {[epoch |-> epoch, obj |-> obj]}

\* The handlers listenUpdated bound to the object.
handlersOf(obj) == {h \in bHandlers: h.obj = obj}

NoBind == [op |-> "none", fired |-> [r \in Regs |-> 0], handled |-> 0, stopped |-> {}]

BindIdle ==
  /\ bPlugin = 0
  /\ bEpoch = 0
  /\ bNs = 0
  /\ bObjs = 0
  /\ bReactions = {}
  /\ bHandlers = {}
  /\ bSubs = <<>>
  /\ bLive = [k \in RegKeys |-> {}]
  /\ bLast = NoBind

\* The state after new Storage(plugin$, namespace): subscribe() called
\* listenNamespace once.
BindInit ==
  /\ bPlugin \in {0, 1}
  /\ bEpoch = 0
  /\ bNs \in (IF bPlugin = 0 THEN {0} ELSE {0, 1})
  /\ bObjs = bNs
  /\ bReactions = listenNamespace({}, 0, bPlugin)
  /\ bHandlers = IF bNs = 0 THEN {} ELSE listenNamespaceProps({}, 0, bNs)
  /\ bSubs = <<>>
  /\ bLive = [k \in RegKeys |-> {}]
  /\ bLast = NoBind

\* plugin$ emits: the plugin was destroyed (the empty stand-in follows) or a
\* new instance was created, with or without the namespace.  Every subscriber
\* runs: listenNamespace of the Storage, then those of manager.reaction().
BindPluginChanged ==
  /\ bEpoch < MaxEmits
  /\ \E withNs \in BOOLEAN:
       /\ withNs => (bPlugin = 0 /\ bObjs < MaxNsObjs)
       /\ bEpoch' = bEpoch + 1
       /\ bPlugin' = IF bPlugin = 0 THEN bEpoch + 2 ELSE 0
       /\ bObjs' = IF withNs THEN bObjs + 1 ELSE bObjs
       /\ bNs' = IF withNs THEN bObjs + 1 ELSE 0
       /\ bReactions' = listenNamespace(bReactions, bEpoch', bPlugin')
       /\ bHandlers' = IF withNs THEN listenNamespaceProps(bHandlers, bEpoch', bNs')
                       ELSE bHandlers
       /\ bLive' = rebindAll(bLive, bSubs, 1, bEpoch')
       /\ bLast' = [op |-> "changed", fired |-> firedAtMount(bSubs), handled |-> 0,
                    stopped |-> bReactions \ bReactions']
  /\ UNCHANGED bSubs
  /\ UNCHANGED notBind

\* manager.reaction(getter, callback, options) without a key: the key is drawn,
\* subscribe() calls the subscriber at once, and options.fireImmediately is set.
BindReaction ==
  \E r \in Regs, key \in RegKeys, fireImmediately \in BOOLEAN:
    /\ ~RegSubscribed(r)
    /\ bLive' = rebind(bLive, key, [reg |-> r, epoch |-> bEpoch])
    /\ bSubs' = Append(bSubs, [reg |-> r, key |-> key, fire |-> TRUE])
    /\ bLast' = [op |-> "reaction",
                 fired |-> [q \in Regs |-> IF q = r /\ fireImmediately THEN 1 ELSE 0],
                 handled |-> 0, stopped |-> {}]
    /\ UNCHANGED <<bPlugin, bEpoch, bNs, bObjs, bReactions, bHandlers>>
    /\ UNCHANGED notBind

\* The function manager.reaction() returned: the subscriber leaves plugin$.
BindReactionStop ==
  \E r \in Regs:
    /\ RegSubscribed(r)
    /\ bSubs' = SelectSeq(bSubs, LAMBDA s: s.reg # r)
    /\ bLast' = [NoBind EXCEPT !.op = "stop"]
    /\ UNCHANGED <<bPlugin, bEpoch, bNs, bObjs, bReactions, bHandlers, bLive>>
    /\ UNCHANGED notBind

\* attributes[kStorage][namespace] of the plugin is set or replaced: the
\* reactions that read the attributes of this plugin run, each one stops its own
\* handler and binds a new one to the new object.
RECURSIVE rebindProps(_, _, _)
rebindProps(handlers, epochs, obj) ==
  IF epochs = {} THEN handlers
  ELSE LET e == CHOOSE x \in epochs: TRUE
       IN  rebindProps(listenNamespaceProps(handlers, e, obj), epochs \ {e}, obj)

BindNamespaceReplaced ==
  /\ bPlugin # 0
  /\ bObjs < MaxNsObjs
  /\ bObjs' = bObjs + 1
  /\ bNs' = bObjs + 1
  /\ bHandlers' =
       rebindProps(bHandlers, {x.epoch: x \in {y \in bReactions: y.plugin = bPlugin}}, bNs')
  /\ bLast' = [NoBind EXCEPT !.op = "replaced"]
  /\ UNCHANGED <<bPlugin, bEpoch, bReactions, bSubs, bLive>>
  /\ UNCHANGED notBind

\* The tree reports a change of a property of the namespace: the handlers
\* bound to the object run.
BindReport ==
  /\ bNs # 0
  /\ bLast' = [NoBind EXCEPT !.op = "report", !.handled = Cardinality(handlersOf(bNs))]
  /\ UNCHANGED <<bPlugin, bEpoch, bNs, bObjs, bReactions, bHandlers, bSubs, bLive>>
  /\ UNCHANGED notBind

BindNext ==
  \/ BindPluginChanged
  \/ BindReaction
  \/ BindReactionStop
  \/ BindNamespaceReplaced
  \/ BindReport

\* The lifecycle models at rest.
LateIdle == MergeIdle /\ PlugIdle /\ BindIdle

LifeIdle == CtorIdle /\ IsoIdle /\ SessIdle /\ AppIdle /\ LateIdle

InitMerge ==
  /\ MergeInit /\ RefineInit /\ DebounceInit /\ StorageIdle /\ CameraIdle /\ ManagerIdle
  /\ CtorIdle /\ IsoIdle /\ SessIdle /\ AppIdle /\ PlugIdle /\ BindIdle

InitPlug ==
  /\ PlugInit /\ RefineInit /\ DebounceInit /\ StorageIdle /\ CameraIdle /\ ManagerIdle
  /\ CtorIdle /\ IsoIdle /\ SessIdle /\ AppIdle /\ MergeIdle /\ BindIdle

InitBind ==
  /\ BindInit /\ RefineInit /\ DebounceInit /\ StorageIdle /\ CameraIdle /\ ManagerIdle
  /\ CtorIdle /\ IsoIdle /\ SessIdle /\ AppIdle /\ MergeIdle /\ PlugIdle

Init == RefineInit /\ DebounceInit /\ StorageIdle /\ CameraIdle /\ ManagerIdle /\ LifeIdle

InitStorage ==
  StorageInit /\ rLast = NoCall /\ DebounceInit /\ CameraIdle /\ ManagerIdle /\ LifeIdle

InitCamera ==
  CameraInit /\ RefineInit /\ DebounceInit /\ StorageIdle /\ ManagerIdle /\ LifeIdle

InitManager ==
  ManagerInit /\ RefineInit /\ DebounceInit /\ StorageIdle /\ CameraIdle /\ LifeIdle

InitWindows ==
  WindowsInit /\ RefineInit /\ DebounceInit /\ StorageIdle /\ CameraIdle /\ LifeIdle

InitConstruct ==
  /\ ConstructInit /\ rLast = NoCall /\ DebounceInit /\ CameraIdle /\ ManagerIdle
  /\ IsoIdle /\ SessIdle /\ AppIdle /\ LateIdle

InitSession ==
  /\ WindowsInit /\ RefineInit /\ DebounceInit /\ StorageIdle /\ CameraIdle
  /\ CtorIdle /\ IsoIdle /\ SessIdle /\ AppIdle /\ LateIdle

SpecRefine == Init /\ [][RefineNext]_vars

SpecReplace == Init /\ [][ReplaceNext]_vars

SpecDebounce == Init /\ [][DebounceNext]_vars

\* Time passes, and the host runs a timeout that is due.
SpecDebounceLive ==
  /\ Init
  /\ [][DebounceLiveNext]_vars
  /\ WF_vars(DebounceTick)
  /\ WF_vars(DebounceRefresh)

SpecStorage == InitStorage /\ [][StorageNext]_vars

SpecDispose == InitStorage /\ [][DisposeNext]_vars

SpecCamera == InitCamera /\ [][CameraNext]_vars

SpecCameraLegacy == InitCamera /\ [][LegacyCameraNext]_vars

SpecManager == InitManager /\ [][ManagerNext]_vars

SpecWindows == InitWindows /\ [][WindowsNext]_vars

SpecDecode == InitStorage /\ [][DecodeNext]_vars

SpecConstruct == InitConstruct /\ [][ConstructNext]_vars

SpecIsolation == Init /\ [][IsolationNext]_vars

SpecSession == InitSession /\ [][SessionNext]_vars

SpecAppDispose == Init /\ [][AppDisposeNext]_vars

SpecAppState == Init /\ [][AppStateNext]_vars

SpecAppSetup == Init /\ [][AppSetupNext]_vars

SpecMerge == InitMerge /\ [][MergeNext]_vars

SpecPlug == InitPlug /\ [][PlugNext]_vars

SpecBind == InitBind /\ [][BindNext]_vars

----------------------------------------------------------------------------
\* Properties of the Refine engine.

\* C3 (as stated): identity stability.  Wrapping a plain object that has a
\* wrapper returns the key it had, and two distinct plain objects of the caller,
\* though deep-equal, never carry the same wrapper key.
C3_IdentityStability ==
  /\ (rLast.op = "ensureRefValue" /\ rLast.arg.t = "obj" /\ rLast.prevKey # NoKey)
       => rLast.retKey = rLast.prevKey
  /\ \A r1, r2 \in 1..NumObjs:
       (r1 # r2 /\ refMap[r1] # NoKey /\ refMap[r2] # NoKey) => refMap[r1] # refMap[r2]

\* C4: no-op suppression.  setValue(k, v) returns a diff exactly when v differs
\* from the stored value, and a setValue(k, v) that repeats the call before it
\* returns null and leaves the shadow state as it was.
C4_NoOpSuppression ==
  rLast.op = "setValue" =>
    /\ rLast.null = ~rLast.differed
    /\ rLast.repeat => (rLast.null /\ rLast.unchanged)

\* C4 witness: the second of two equal calls with a plain object has returned.
C4_Witness ==
  rLast.op = "setValue" /\ rLast.repeat /\ rLast.arg.t = "obj" /\ rLast.null

\* C5: diff completeness.  replaceState returns a diff with exactly the keys
\* whose value changed, each with the previous and the new value, or null when
\* no key changed; {a:1, b:2} -> {b:1, c:2} gives a removed, b changed, c added.
C5_DiffCompleteness ==
  rLast.op = "replaceState" =>
    /\ rLast.exact
    /\ rLast.null = ~rLast.differed
    /\ rLast.isExample => rLast.exampleOk

\* C5 witness: the three-key example has been replaced and its diff returned.
C5_Witness == rLast.op = "replaceState" /\ rLast.isExample /\ rLast.exampleOk

----------------------------------------------------------------------------
\* Properties of debounced().

\* C6 (as stated): coalescing.  The calls of a burst, all made within one
\* window of length Timeout that began with no execution pending, produce one
\* execution of fn: once BurstSize calls are made, the executions since the
\* first call and the pending one number exactly one.
C6_OneExecutionPerWindow ==
  (burst.idle /\ burst.calls = BurstSize) => burst.execs + Cardinality(timeouts) = 1

\* C6 (amended): calls made after an execution (or after the first call) are
\* merged into one pending execution, which the host runs once; and no
\* execution begins sooner than Timeout after the execution before it.
C6_Coalescing ==
  /\ Cardinality(timeouts) = (IF dCalls >= 1 THEN 1 ELSE 0)
  /\ (timer > 0) = (timeouts # {})
  /\ dGapOk

\* C6 witness: an execution that served BurstSize merged calls has run after
\* an earlier execution.
C6_Witness == dExecs >= 2 /\ dServed = BurstSize

----------------------------------------------------------------------------
\* Properties of Storage.

\* C7: whatever the number of dispose() calls, a 'disconnected' subscriber that
\* was registered at the first call has been called exactly once and any other
\* never: the second and later calls do nothing.
C7_DisposalIdempotence ==
  \A cb \in Callbacks:
    dcCount[cb] = (IF disposeCalls >= 1 /\ cb \in dcAtFirst THEN 1 ELSE 0)

\* dispose() was called twice with a subscriber at the first call, and the
\* subscriber registered again in between is still registered.
C7_Witness == disposeCalls >= 2 /\ dcAtFirst # {} /\ dcSubs # {}

\* C8: once dispose() was called, setState() and resetState() write nothing,
\* also when canOperate is true.
C8_NoWriteAfterDispose ==
  ~(disposeCalls >= 1 /\ sLast.op \in {"setState", "resetState"} /\ sLast.wrote)

\* C9: once dispose() was called, no stateChanged callback is called, whenever
\* it was registered.
C9_NoStateChangedAfterDispose == ~(disposeCalls >= 1 /\ sLast.called)

\* C10: for a batch the tree reports (the echo of this client's setState
\* included) the handler emits one stateChanged event whose diff has exactly
\* the keys whose value changed, and none when no value changed.
C10_ExactlyOncePerBatch ==
  sLast.by = "handler" =>
    /\ sLast.exact
    /\ sLast.events = (IF sLast.changed THEN 1 ELSE 0)

----------------------------------------------------------------------------
\* Properties of the camera.

\* C1: when the camera reaction of a client sees a record whose id is the
\* client's observerId, it does not move the client's main view.
C1_FeedbackFreedom == (cLast.op = "observe" /\ cLast.own) => ~cLast.moved

\* A client saw the echo of the record it wrote, which is still on its way to
\* the other client.
C1_Witness ==
  /\ cLast.op = "observe" /\ cLast.own
  /\ \E c \in Clients: cShared.id = observerId(c) /\ cPend[3 - c]

\* Nobody moves, nothing is scheduled, every write has arrived.
Quiescent == \A c \in Clients: cJoined[c] => (~syncTimer[c] /\ ~cPend[c])

\* C2: once every client stopped moving its viewport and every write has
\* arrived, each client that is not in freedom mode shows the shared camera:
\* its centre, at the shared scale times the client's localScaleFactor.
C2_Convergence ==
  Quiescent =>
    \A c \in Clients:
      (cJoined[c] /\ ~freedom[c]) => mainView[c] = Applied(OrDefault(cShared), cWidth[c])


\* C13: camera normalization.  A client out of freedom mode that observes a
\* record whose id is not its own id moves its main view to the centre of the
\* record, with the scale of the record times its width over BaseWidth; a
\* logical scale of one shows as a half at width 640 and as one at width 1280.
C13_CameraNormalization ==
  /\ (cLast.op = "observe" /\ ~cLast.own /\ ~cLast.free) => (cLast.moved /\ cLast.exact)
  /\ Applied(Camera(0, ScaleOne, observerId(1)), 640).scale * 2 = ScaleOne
  /\ Applied(Camera(0, ScaleOne, observerId(1)), BaseWidth).scale = ScaleOne

\* C13 witness: the record of client 1 reached client 2, whose width is 640
\* and whose main view now shows the logical scale of one as a half.
C13_Witness ==
  /\ cLast.op = "observe" /\ cLast.by = "deliver" /\ ~cLast.own /\ cLast.moved
  /\ cShared.some /\ cShared.id = observerId(1) /\ cShared.scale = ScaleOne
  /\ cWidth[2] = 640 /\ mainView[2].scale * 2 = ScaleOne


\* C14 (as stated): a client that observes a record whose id is the complement
\* of its own id does not apply the record to its main view.
C14_ComplementNotReapplied == (cLast.op = "observe" /\ cLast.comp) => ~cLast.moved

\* C14 (amended): a client out of freedom mode that observes a record whose id
\* is the complement of its own id is the originator (it schedules syncMainView)
\* and applies the record to its main view, scaled by its localScaleFactor.
C14_ComplementApplied ==
  (cLast.op = "observe" /\ cLast.comp /\ ~cLast.free) =>
    (cLast.originator /\ ~cLast.own /\ cLast.moved /\ cLast.exact)

\* C14 witness: the reaction of a client saw the record with the complement of
\* the client's id that its moveCamera wrote, and moved the main view.
C14_Witness ==
  /\ cLast.op = "observe" /\ cLast.by = "moveCamera" /\ cLast.comp /\ cLast.moved
  /\ \E c \in Clients: cShared.id = Complement(observerId(c)) /\ cAttr[c] = cShared


C16_DeferredMove ==
  (cLast.by = "moveCamera" /\ ~cLast.immediately /\ ~cLast.free) =>
    /\ cLast.kept
    /\ cLast.merged
    /\ cLast.wrote => (cLast.op = "observe" /\ ~cLast.own /\ cLast.moved /\ cLast.exact)
    /\ ~cLast.wrote => cLast.op = "none"

\* C16 witness: a client of width 640 called moveCamera() without immediate
\* mode; its reaction saw the record and the main view shows it.
C16_Witness ==
  /\ cLast.by = "moveCamera" /\ ~cLast.immediately /\ cLast.wrote /\ cLast.moved
  /\ cLast.kept /\ cLast.merged
  /\ \E c \in Clients:
       /\ cShared.id = Complement(observerId(c)) /\ cAttr[c] = cShared
       /\ cWidth[c] = 640 /\ mainView[c] = Applied(cShared, 640)


\* C17: freedom mode.  While the freedom flag of a client is set, neither its
\* syncCameraToRemote nor its moveCamera() writes a record, and its camera
\* reaction leaves the main view alone for every record that arrives.
C17_FreedomIsolation == cLast.free => (~cLast.wrote /\ ~cLast.moved)


----------------------------------------------------------------------------
\* Properties of the manager.

\* The operations that change scenes of the room.
PageOps == {"addPage", "removePage", "jumpPage", "prevPage", "nextPage"}

\* C11 (as stated): a call made while the plugin is the empty stand-in or the
\* room is not writable (setState, resetState, setAttributes, updateAttributes,
\* mergeAttributes, moveCamera, addApp, a page operation) writes nothing and
\* does not throw.
C11_SilentWithoutPermission ==
  (mLast.op # "none" /\ ~(mLast.plugin /\ mLast.room)) =>
    (mLast.writes = 0 /\ ~mLast.threw)

\* C11 (amended): setState, resetState, setAttributes, updateAttributes,
\* mergeAttributes, moveCamera and addApp write nothing and do not throw when
\* the plugin is the empty stand-in or the room is not writable; a page
\* operation writes nothing and does not throw when the room is not writable,
\* whatever the plugin is.
C11_SilentWithoutWriter ==
  /\ (mLast.op \notin PageOps \cup {"none"} /\ ~(mLast.plugin /\ mLast.room)) =>
       (mLast.writes = 0 /\ ~mLast.threw)
  /\ (mLast.op \in PageOps /\ ~mLast.room) => (mLast.writes = 0 /\ ~mLast.threw)

\* C11 witness: addApp() returned without a write in a room that stopped being
\* writable after a window was added.
C11_Witness ==
  /\ mLast.op = "addApp" /\ mLast.plugin /\ ~mLast.room /\ mLast.writes = 0
  /\ \E id \in AppIds: boxes[id].held /\ tApps.metas[id].some

\* C12: a call of addApp() or moveCamera() made while canOperate is true ends
\* without an exception, whatever the attributes are, those of a room without
\* a storage root included.
C12_NoThrowWhenCanOperate ==
  (mLast.op \in {"addApp", "moveCamera"} /\ mLast.plugin /\ mLast.room) => ~mLast.threw


\* The box of a is stacked below the box of b: by zIndex, and for one zIndex
\* by the order of creation.
Below(a, b) ==
  \/ boxes[a].z < boxes[b].z
  \/ /\ boxes[a].z = boxes[b].z
     /\ \E i, j \in 1..Len(created): i < j /\ created[i] = a /\ created[j] = b

\* C18: Z tie-break.  When the entries of two windows the client holds have
\* the same z, the window whose entry has the smaller createdAt is stacked
\* below the other.
C18_TieBreakByCreatedAt ==
  \A a, b \in AppIds:
    ( /\ boxes[a].held /\ boxes[b].held
      /\ tApps.metas[a].full /\ tApps.metas[b].full
      /\ tApps.metas[a].z = tApps.metas[b].z
      /\ tApps.metas[a].createdAt < tApps.metas[b].createdAt ) => Below(a, b)

\* C19: window removal.  Once the deletion of attributes.apps[id] has reached
\* a client, the client holds no box for id, whoever deleted the entry.
C19_RemovalReleasesBox ==
  \A id \in AppIds: (tApps.some /\ ~tApps.metas[id].some) => ~boxes[id].held

\* C20: local window changes are written.  On a client that can write, with
\* no 'intrinsic_move' handler scheduled the x of every box is the x of its
\* entry, with no 'intrinsic_resize' handler scheduled the width of every box
\* is the width of its entry, and the zIndex of every box is the z of its
\* entry at any time.
C20_LocalChangesWritten ==
  \A id \in AppIds:
    (writer /\ boxes[id].held /\ tApps.metas[id].full) =>
      /\ ~moveTimer => boxes[id].x = tApps.metas[id].x
      /\ ~resizeTimer => boxes[id].width = tApps.metas[id].width
      /\ boxes[id].z = tApps.metas[id].z


\* C21: window feedback-freedom.  The reaction that applies an entry another
\* client wrote to the box makes no write and schedules no debounced handler.
C21_SilentApply ==
  mLast.op = "remoteMeta" => (mLast.writes = 0 /\ ~mLast.scheduled)

\* C21 witness: an entry of another client changed a box the user had moved,
\* and no handler is scheduled.
C21_Witness ==
  /\ mLast.op = "remoteMeta" /\ mLast.changed /\ ~moveTimer /\ ~resizeTimer
  /\ \E id \in AppIds: boxes[id].held /\ boxes[id] = Box(0, 0, tApps.metas[id].z)


\* The shadow equals the decoded namespace object.
ShadowIsNamespace == \A k \in StateKeys: SameValue(Engine, state[k], nsTree[k])

\* C22: wholesale replacement.  After the namespace object was replaced
\* (resetState of this client, or a write of another one) the shadow equals the
\* decoded new object and the emitted diff has every key that changed; after the
\* plugin was destroyed and recreated the namespace is absent and the shadow
\* equals the default state.
C22_ReseedOnReplacement ==
  /\ (sLast.by = "reaction" /\ sLast.op \in {"resetState", "namespace"})
       => (ShadowIsNamespace /\ sLast.covers)
  /\ (sLast.op = "pluginCreate" /\ ~nsPresent) => state = DefaultState

\* C22, the part the code has: the reaction re-seeds the shadow from a
\* replaced namespace object and reports every key that changed.
C22_ReseedByReaction ==
  (sLast.by = "reaction" /\ sLast.op \in {"resetState", "namespace"})
    => (ShadowIsNamespace /\ sLast.covers)


\* C23: a default state that is given and is not an object (a primitive or
\* null) makes the constructor throw, whether or not the namespace exists.
C23_NonObjectDefaultThrows ==
  (ctorResult # "none" /\ ctorDefault # Undef /\ ~isObject(ctorDefault))
    => ctorResult = "threw"

\* C23, the part the code has: a truthy primitive makes the constructor throw
\* in every state of the tree, and so does any non-object without a namespace.
C23_TruthyPrimitiveThrows ==
  (ctorResult # "none" /\ ~isObject(ctorDefault) /\ ctorDefault # Undef
     /\ (truthy(ctorDefault) \/ ~nsPresent))
    => ctorResult = "threw"


\* C24: handler-error isolation.  An exception of a subscriber or of the
\* debounced function never reaches the caller; emit() calls every subscriber
\* of the event, also after one of them threw and after an earlier step in
\* which one threw; and update() schedules an execution also after an execution
\* that threw.
C24_HandlerErrorIsolation ==
  /\ ~iLast.escaped
  /\ (iLast.op = "emit" => ~iLast.missed)
  /\ (iLast.op = "update" => (timer > 0 /\ \E t \in timeouts: t.id = timer))
  /\ (iLast.op = "refresh" => timer = 0)

\* C24 witness: an emit to two subscribers in which one threw, after an
\* earlier emit and an earlier execution in which a callback threw, while the
\* next execution is scheduled.
C24_Witness ==
  /\ iLast.op = "emit" /\ iLast.threw /\ ~iLast.missed
  /\ Len(eSubs) = 2
  /\ iLast.earlier = {"emit", "refresh"}
  /\ timer > 0


\* The keys of the last batch that had a well-formed value (or a deletion), and
\* the keys of the namespace outside the batch, are reconciled.
SiblingsReconciled ==
  \A k \in StateKeys \ sLast.bad:
    isMalformed(nsTree[k]) \/ SameValue(Engine, state[k], nsTree[k])

\* C25: decode errors degrade.  After a batch in which the value of a key was
\* a malformed wrapper the key is absent from the shadow, and the other keys
\* of the batch are reconciled.
C25_DecodeErrorsDegrade ==
  (sLast.op = "decode" /\ sLast.by = "handler")
    => ((\A k \in sLast.bad: state[k] = Undef) /\ SiblingsReconciled)

\* C25, the part the code has: the key reads as undefined (it may stay an own
\* key of the shadow) and the other keys of the batch are reconciled.
C25_ReadsUndefined ==
  (sLast.op = "decode" /\ sLast.by = "handler")
    => ((\A k \in sLast.bad: Read(state[k]) = Undef) /\ SiblingsReconciled)


\* C26: scheduler cancellation.  After dispose() was called while an execution
\* was pending, no execution is pending, however much time passes, until the
\* debounced function is called again: the host has nothing left to run.
C26_DisposeCancelsPending ==
  (dLast.op = "dispose" /\ dLast.pending) => (timeouts = {} /\ timer = 0)

\* C26 witness: dispose() was called while the first execution was pending, and
\* the time that execution was scheduled for has passed without it.
C26_Witness ==
  /\ dLast.op = "dispose" /\ dLast.pending
  /\ now > dLast.due
  /\ dExecs = 0

\* The coalesced actions of the manager, by the name of their execution.
CoalescedActions == {"syncCameraToRemote", "syncMainView", "moveRefresh", "resizeRefresh"}

\* C27: session disposal.  Once manager.dispose() has returned no coalesced
\* action executes and nothing is written, and a second dispose() changes nothing.
C27_NoActionAfterDispose ==
  sessDisposed > 0 =>
    /\ mLast.op \notin CoalescedActions
    /\ mLast.writes = 0
    /\ (mLast.op = "dispose" /\ sessDisposed > 1) => ~mLast.changed

\* C27, the part the code has: the camera sync and the scene-focus resync are
\* cancelled, nothing is written after dispose(), and a second dispose() is a
\* no-op.
C27_StoreCancels ==
  sessDisposed > 0 =>
    /\ ~camTimer /\ ~sceneTimer
    /\ mLast.op \notin {"syncCameraToRemote", "syncMainView"}
    /\ mLast.writes = 0
    /\ (mLast.op = "dispose" /\ sessDisposed > 1) => ~mLast.changed

\* C28: owner disposal tears down storage.  Once the App is disposed every
\* Storage of its context, the main one and those of connectStorage(), has no
\* subscriber left and has emitted 'disconnected' exactly once.
C28_OwnerDisposalTearsDown ==
  appDisposed > 0 =>
    \A s \in StorageIds: stor[s].made => (stor[s].subs = 0 /\ stor[s].dc = 1)

\* C28, the part the code has: the storages of connectStorage() are torn down
\* exactly once, whether the app disposed them before or not.
C28_ConnectedTornDown ==
  appDisposed > 0 =>
    \A s \in ConnectedIds: stor[s].made => (stor[s].subs = 0 /\ stor[s].dc = 1)

\* C29: App state notification.  After a setState of this client or of
\* another one changed the synced state, every callback registered with
\* context.on('stateChanged', ...) was invoked and context.state shows the new
\* value.
C29_StateChangedNotifies ==
  aLast.changed => (aLast.ctxTold = ctxSubs /\ aLast.shown /\ appShadow = appTree)

\* C29, the part the code has: context.state shows the new value, and the
\* subscribers of context.storage are invoked.
C29_StorageNotifies ==
  aLast.changed => (aLast.stTold = stSubs /\ aLast.shown /\ appShadow = appTree)

\* C30: setup() runs once and only once.  It never runs more than once, and
\* once a definition of the kind is registered and every load has ended
\* without an error it has run.
C30_SetupOnce ==
  /\ setups <= 1
  /\ (regDef # 0 /\ loads = {} /\ setupErrors = 0) => setups = 1

\* C30, the part the code has: once a definition is registered and every load
\* has ended without an error, setup() has run, and a registration made after
\* the first load has ended starts no load.
C30_SetupAtLeastOnce ==
  /\ (regDef # 0 /\ loads = {} /\ setupErrors = 0) => setups >= 1
  /\ (~appSub /\ loads = {}) => (setups + setupErrors >= 1)

----------------------------------------------------------------------------
\* Properties of the wrapper keys, the plugin and the attributes.

\* C33 (as stated): wrapper keys are collision-free within one engine.  No two
\* distinct values the engine has a wrapper for, made by the caller or adopted
\* from a remote client, carry the same wrapper key.
C33_WrapperKeysCollisionFree ==
  \A r1, r2 \in Refs:
    (r1 # r2 /\ refMap[r1] # NoKey /\ refMap[r2] # NoKey) => refMap[r1] # refMap[r2]

\* C33, the part the code has: nextKey() returns no key that refKeys holds, so
\* a key the engine generated and has not freed is never generated again.
C33_GeneratedKeyIsFresh ==
  (rLast.op = "ensureRefValue" /\ rLast.arg.t = "obj" /\ rLast.prevKey = NoKey)
    => rLast.retKey \in refKeys

\* C34 (as stated): arrays bypass identity wrapping.  The engine never has a
\* wrapper for an array, whatever setValue, toRefValue or ensureRefValue were
\* given.
C34_ArraysBypassWrapping == \A r \in ArrayRefs: refMap[r] = NoKey

\* C34, the part the code has: the shadow state holds an array as the plain
\* array, and wraps it as it wraps any object (isObject is true of it).
C34_ArrayWrappedAsObject ==
  /\ \A key \in StateKeys: state[key].r \in ArrayRefs => isArrayValue(state[key])
  /\ (rLast.op \in {"setValue", "ensureRefValue"} /\ isArrayValue(rLast.arg))
       => refMap[rLast.arg.r] # NoKey

\* C35: trailing-edge liveness.  Calls of the debounced function that no
\* execution has followed yet are followed by one (or by a dispose(), which
\* discards them): no call stays unserved for ever.
C35_TrailingEdgeLiveness == (dCalls > 0) ~> (dCalls = 0)

\* C35 witness: an execution has begun after two or more calls, with no
\* dispose() after them.
C35_Witness == dExecs >= 1 /\ dServed >= 2 /\ dCalls = 0 /\ dLast.op = "none"

\* C36 (as stated): a device-driven motion in freedom mode never leads to a
\* write of the camera.  An execution of syncCameraToRemote that only motions
\* made in freedom mode scheduled writes nothing, whatever the mode is by then.
C36_FreedomMotionNeverWritten == (cLast.by = "sync" /\ cLast.fromFree) => ~cLast.wrote

\* C36, the part the code has: such an execution writes nothing while freedom
\* mode is still on when it runs.
C36_NoWriteWhileFreedom ==
  (cLast.by = "sync" /\ cLast.fromFree /\ cLast.free) => ~cLast.wrote

\* C37 (as stated): every entry of attributes.apps is whole.  An entry that is
\* there has its title, its createdAt and all the fields of its position.
C37_WindowMetaWellFormed ==
  \A id \in AppIds: tApps.metas[id].some => tApps.metas[id].full

\* C37, the part the code has: a position or z write for an entry that is
\* there writes the field alone, so an entry that is whole stays whole for as
\* long as it is there.
C37_WholeStaysWhole ==
  [][\A id \in AppIds:
       (tApps.metas[id].full /\ tApps.metas[id].some /\ tApps'.metas[id].some)
         => tApps'.metas[id].full]_vars

\* The writes the statement of C40 asks of a merge of b into a at the path p:
\* an array is written, an object is merged key by key into an object and
\* written whole over anything else, a primitive is written unless a is equal.
RECURSIVE differing(_, _, _)
differing(a, b, p) ==
  IF b.t = "arr" THEN {[p |-> p, v |-> b]}
  ELSE IF b.t = "obj"
  THEN IF a.t = "obj"
       THEN UNION {differing(Get(a, b.kids[i][1]), b.kids[i][2], Append(p, b.kids[i][1])):
                     i \in 1..Len(b.kids)}
       ELSE {[p |-> p, v |-> b]}
  ELSE IF a = b THEN {} ELSE {[p |-> p, v |-> b]}

WritesOf(last) == {last.writes[i]: i \in 1..Len(last.writes)}
\* The partial has numbers and objects only.
RECURSIVE numbersOnly(_)
numbersOnly(b) ==
  \/ b.t = "num"
  \/ b.t = "obj" /\ \A i \in 1..Len(b.kids): numbersOnly(b.kids[i][2])

\* C40 (as stated): mergeAttributes(partial) never throws and issues a write
\* for exactly the paths of partial whose value differs from the attributes.
C40_MergeWritesDiffering ==
  mgLast.op = "mergeAttributes" =>
    (~mgLast.threw /\ WritesOf(mgLast) = differing(mgLast.a, mgLast.b, <<>>))

\* C40, the part the code has: a merge that does not throw issues exactly
\* those writes, a merge that throws has issued some of them and no other, and
\* a partial of numbers (x, y, width, height, z) into values that are there
\* does not throw.
C40_MergeExactUnlessThrown ==
  mgLast.op = "mergeAttributes" =>
    /\ WritesOf(mgLast) \subseteq differing(mgLast.a, mgLast.b, <<>>)
    /\ ~mgLast.threw => WritesOf(mgLast) = differing(mgLast.a, mgLast.b, <<>>)
    /\ (numbersOnly(mgLast.b) /\ mgLast.threw)
         => \E i \in 1..Len(mgLast.a.kids): mgLast.a.kids[i][2].t = "null"

\* The client can write: the token is of an admin or a writer, the room is
\* writable and connected.
CanWrite == pToken /\ isRoomWritable(pIsWritable, pPhase)

\* C31 (as stated): plugin auto-recreation.  Until the room is disconnected,
\* whenever the room has no plugin instance and the client can write, a
\* creation is under way; and the plugin value observed is never null.
C31_AutoRecreation ==
  /\ (~pDisposed /\ pMap = 0 /\ CanWrite) => pRequests > 0
  /\ derivedPlugin(pMap) # NullPlugin

\* C31, the part the code has: when getPlugin returns, when the plugin of the
\* room is destroyed and when room.isWritable changes, a creation is asked for
\* if the room has no plugin and the client can write; and the plugin value
\* observed is the stand-in while the room has no plugin, never null.
C31_RecreationAtTriggers ==
  /\ (pLast.op \in {"getPlugin", "onDestroy", "onEnableWriteNowChanged"}
        /\ ~pDisposed /\ pMap = 0 /\ CanWrite) => (pLast.asked /\ pRequests > 0)
  /\ derivedPlugin(pMap) # NullPlugin
  /\ pMap = 0 => derivedPlugin(pMap) = EmptyPlugin

\* C38 (as stated): at most one plugin-creation request is outstanding.
C38_OneCreationRequest == pRequests <= 1

\* C38, the part the code has: createInvisiblePlugin is called only while the
\* map has no plugin for the room and the room is writable.
C38_RequestOnlyWithoutPlugin ==
  /\ (pLast.asked /\ pLast.op # "getPlugin")
       => (pMap = 0 /\ isRoomWritable(pIsWritable, pPhase))
  /\ (pLast.asked /\ pLast.op = "getPlugin") => (~pLast.had /\ pLast.could)

\* C39: a Storage has at most one namespace reaction and at most one handler of
\* property changes that were not stopped: after plugin$ emitted, the listeners
\* bound for the value before are stopped.
C39_OneListenerSet ==
  /\ Cardinality(bReactions) <= 1
  /\ Cardinality(bHandlers) <= 1

\* The part the code has: one handler at most is bound to the namespace object
\* of the plugin, and one reported change runs one handler.
C39_ReportHandledOnce ==
  /\ Cardinality(handlersOf(bNs)) <= 1
  /\ bLast.op = "report" => bLast.handled = 1

\* C32: for a listener registered with manager.reaction(), when plugin$ emits
\* the listener bound to the value before is disposed, a new one is mounted on
\* the new value and the callback fires once at the mount; at most one listener
\* that was not disposed exists per key at any time.
C32_RebindOnPluginChange ==
  /\ \A k \in RegKeys: Cardinality(bLive[k]) <= 1
  /\ \A r \in Regs:
       RegSubscribed(r) =>
         /\ \E l \in bLive[keyOf(r)]: l.epoch = bEpoch
         /\ \A l \in bLive[keyOf(r)]: l.epoch = bEpoch
         /\ bLast.op = "changed" => bLast.fired[r] = 1

C32_Witness ==
  /\ bLast.op = "changed"
  /\ bEpoch >= 2
  /\ \E r \in Regs:
       /\ RegSubscribed(r)
       /\ bLive[keyOf(r)] = {[reg |-> r, epoch |-> bEpoch]}
       /\ bLast.fired[r] = 1
====
